---- MODULE Spec2Model ----
(***************************************************************************)
(* Command & Control Simulation (ccsim): a model of the core support layer *)
(* (CommandQueue, dispatch strategies, UnitRegistry) and of the framed TCP *)
(* transport (TcpClient, TcpServer::ClientSession).                        *)
(*                                                                         *)
(* Each component has its own specification over the shared variable list: *)
(*   SpecQueue     CommandQueue over std::priority_queue<CommandEntry>     *)
(*   SpecRR        RoundRobinStrategy                                      *)
(*   SpecPrio      PriorityStrategy                                        *)
(*   SpecBcast     BroadcastStrategy                                       *)
(*   SpecRegistry  UnitRegistry                                            *)
(*   SpecFraming   one TcpClient connection and its TcpServer session      *)
(* The variables a specification does not use keep their initial value.    *)
(***************************************************************************)
EXTENDS Integers, Sequences, FiniteSets, TLC

VARIABLES
  \* ---- CommandQueue (src/src/core/strategy.h) ----
  queue_,      \* the heap array of std::priority_queue<CommandEntry>
  clock,       \* the value std::chrono::steady_clock::now() returns
  enqueued,    \* history: the entries in enqueue order (command n is the n-th)
  dequeued,    \* history: the commands returned by dequeue, in order
  qOp,         \* the last CommandQueue call: "none", "enqueue", "dequeue"
  qRet,        \* what the last dequeue returned: an entry, or None (nullptr)
  \* ---- RoundRobinStrategy (src/src/core/strategy.h) ----
  current_index_,  \* std::atomic<size_t> current_index_
  rrUnits,     \* the caller's list of available units, fixed for the behaviour
  rrCalls,     \* history: select_targets calls so far
  rrMoves,     \* history: selections for a non-REPORT command on rrUnits so far
  rrLast,      \* the last call: [type, available, result], or None
  rrRun,       \* thread -> [pc, index, result] of its select_targets call: pc is
               \* "idle", "fetched" (fetch_add has returned index) or "done"
  \* ---- PriorityStrategy (src/src/core/strategy.h) ----
  unit_priorities_,  \* std::unordered_map<UnitId, int>
  prioLast,    \* the last call, if nothing was set since: [type, available, result]
  \* ---- BroadcastStrategy (src/src/core/strategy.h) ----
  bcLast,      \* the last call: [type, available, result], or None
  \* ---- UnitRegistry (src/unnamed/part_000) ----
  units_,      \* std::unordered_map<UnitId, shared_ptr<Unit>>: id -> Unit object
  unitObj,     \* the Unit objects constructed so far: handle ->
               \* [id, position_, status_, last_update_]
  regSet,      \* history: the ids registered and not unregistered since
  regLatest,   \* history: id -> the Unit object of its latest registration
  regClock,    \* the value std::chrono::steady_clock::now() returns, in seconds
  regTicks,    \* history: the number of times regClock has advanced
  regUpdates,  \* history: update_unit_status / update_unit_position calls so far
  lastWrite,   \* history: handle -> the time of the unit's creation or last write
  \* ---- TelemetryObservable, CommandObservable (src/unnamed/part_001) ----
  observers_,  \* bus -> the elements of its observers_ set, in iteration order
  obsState,    \* subscriber -> "none", "alive" (its owner holds it) or "released"
  obsAdded,    \* history: bus -> the subscribers added and not removed since
  obsCalls,    \* the callbacks of the last notify, in order: [subscriber, callback]
  obsLast,     \* the last notify call: [bus, notify], or None
  \* ---- framed transport: one TcpClient and the TcpServer session it gets ----
  cli,         \* TcpClient::ClientImpl: connected_, socket_, io_thread_, the read chain
  sess,        \* TcpServer::ClientSession: client_id_, connected_, socket_, the read chain
  clients_,    \* TcpServer::clients_: client id -> session
  c2s,         \* the bytes in flight from the client to the session, frame by frame
  s2c,         \* the bytes in flight from the session to the client, frame by frame
  cliSent,     \* history: the messages for which TcpClient::send_message returned true
  srvDelivered,  \* history: the server's message_handler_ calls [client_id, msg, len]
  cliDelivered,  \* history: the client's message_handler_ calls [msg, len]
  c2sWire,     \* history: every frame put on the stream client -> session, in order
  s2cWire,     \* history: every frame put on the stream session -> client, in order
  srvViolation,  \* history: None, or what was delivered when the session read a
                 \* header declaring 0 or 1 MiB and more
  cliViolation,  \* history: the same for the client
  connLog,     \* history: the server's connection_handler_ calls (client ids)
  cliConnLog,  \* history: the client's connection_handler_ calls (booleans)
  netFault,    \* history: a socket operation failed or the caller disconnected
  \* ---- TcpServer's life cycle (with clients_ and connLog above) ----
  running_,    \* TcpServer::running_
  io_thread_,  \* the thread of io_context_.run(): "none", "started" (created, not
               \* yet in run()), "run", "returned" (run() has returned) or "joined"
  ioStopped,   \* io_context_.stopped()
  acceptOps,   \* the async_accept operations outstanding
  backlog,     \* the connections of clients that wait to be accepted
  srvSess,     \* the ClientSession objects made so far; clients_ maps to their index
  srvPc,       \* where the caller's thread is in start() or stop(), or "idle"
  ioHeld,      \* the session the running handle_accept holds, or 0
  srvStarts,   \* history: the calls of start() that found the server stopped
  srvLast,     \* history: the last call [call, noop], noop telling that it
               \* returned at its first test; or None
  \* ---- TcpClient's life cycle (with cli and cliConnLog above) ----
  cliLife,     \* caller: where the owner's thread is ("idle", "connect_wait",
               \* "destroyed"); stopped: io_context_.stopped(); handler:
               \* connection_handler_ is set; history: last, the last call that
               \* returned, late, a handler has run after disconnect() returned,
               \* attempts, the connect() calls that issued an async_connect,
               \* and written, the frames send_message has put on the socket
  \* ---- Command and the JSON codec (src/src/domain/command.h) ----
  counter,     \* the static std::atomic<uint64_t> counter of Command::generate_id
  commands,    \* the Command objects constructed so far, in order of completion:
               \* [id_, target_id_, type_, payload_] and, as history, seen (the
               \* commands complete when its constructor was entered) and from
               \* (the command whose encoding it was decoded from, or 0)
  ctor,        \* thread -> the Command whose constructor the thread is in, or None
  codecLast,   \* history: the last codec call that returned [call, arg, result]
  \* ---- Controller (with the registry, queue_, clients_, srvSess and counter) ----
  ctl,         \* running: start() has been called and stop() has not; strategy:
               \* the active dispatch strategy; worker: the command the
               \* processing loop has dequeued and not yet sent, or None;
               \* history: sent and dropped, the commands sent over a live
               \* connection and those dropped, and last, the last broadcast call
  \* ---- UnitRegistry::update_unit_status / update_unit_position in progress ----
  updateCall,  \* None, or [unit_id, op, arg, unit]: the updating thread is
               \* between get_unit, which returned unit, and the write to it
  \* ---- ClientSession::send_message by several threads (protocol_handler.cpp) ----
  sessOut,     \* sends: the send_message calls so far; pending: frame -> what of
               \* it async_write has still to write; stream: the pieces written
               \* to the socket, in order, as [frame, by, part, intact]
  \* ---- a notify call of an observer bus in progress (src/unnamed/part_001) ----
  obsNotify,   \* pc: "idle", "loop" (observers_mutex_ held, in the loop),
               \* "deadlock" or "threw"; bus, notify: the call; pos: the slot
               \* the loop is at
  \* ---- PriorityStrategy::select_targets beside set_unit_priority ----
  prioRun      \* pc: "idle", "sorting" (select_targets is between its copy of
               \* the list and its return), "done" or "crashed"; available,
               \* type: the call; maps: the values unit_priorities_ has had
               \* since the call began

queueVars == <<queue_, clock, enqueued, dequeued, qOp, qRet>>
rrVars    == <<current_index_, rrUnits, rrCalls, rrMoves, rrLast, rrRun>>
prioVars  == <<unit_priorities_, prioLast>>
bcVars    == <<bcLast>>
regVars   == <<units_, unitObj, regSet, regLatest, regClock, regTicks, regUpdates,
               lastWrite>>
obsVars   == <<observers_, obsState, obsAdded, obsCalls, obsLast>>

netVars   == <<cli, sess, clients_, c2s, s2c, cliSent, srvDelivered, cliDelivered,
               c2sWire, s2cWire, srvViolation, cliViolation, connLog, cliConnLog,
               netFault>>

cmdVars   == <<counter, commands, ctor, codecLast>>

srvVars   == <<running_, io_thread_, ioStopped, acceptOps, backlog, srvSess, srvPc,
               ioHeld, srvStarts, srvLast>>

\* the variables of the framed transport that the server's life cycle leaves alone
netRest   == <<cli, sess, c2s, s2c, cliSent, srvDelivered, cliDelivered, c2sWire,
               s2cWire, srvViolation, cliViolation, cliConnLog, netFault>>

\* the variables of the framed transport that the client's life cycle leaves alone
netSession == <<sess, clients_, c2s, s2c, cliSent, srvDelivered, cliDelivered, c2sWire,
                s2cWire, srvViolation, cliViolation, connLog, netFault>>

vars == <<queueVars, rrVars, prioVars, bcVars, regVars, obsVars, netVars, srvVars,
          cliLife, cmdVars, ctl, updateCall, sessOut,
                obsNotify,
                prioRun>>

\* what the actions of one component leave alone
notQueue    == <<rrVars, prioVars, bcVars, regVars, obsVars, netVars, srvVars,
                cliLife, cmdVars, ctl, updateCall, sessOut,
                obsNotify,
                prioRun>>
notRR       == <<queueVars, prioVars, bcVars, regVars, obsVars, netVars, srvVars,
                cliLife, cmdVars, ctl, updateCall, sessOut,
                obsNotify,
                prioRun>>
notPrio     == <<queueVars, rrVars, bcVars, regVars, obsVars, netVars, srvVars,
                cliLife, cmdVars, ctl, updateCall, sessOut,
                obsNotify,
                prioRun>>
notBcast    == <<queueVars, rrVars, prioVars, regVars, obsVars, netVars, srvVars,
                cliLife, cmdVars, ctl, updateCall, sessOut,
                obsNotify,
                prioRun>>
notRegistry == <<queueVars, rrVars, prioVars, bcVars, obsVars, netVars, srvVars,
                cliLife, cmdVars, ctl, updateCall, sessOut,
                obsNotify,
                prioRun>>
notNet      == <<queueVars, rrVars, prioVars, bcVars, regVars, obsVars, srvVars,
                cliLife, cmdVars, ctl, updateCall, sessOut,
                obsNotify,
                prioRun>>
notObs      == <<queueVars, rrVars, prioVars, bcVars, regVars, netVars, srvVars,
                cliLife, cmdVars, ctl, updateCall, sessOut,
                obsNotify,
                prioRun>>
notSrv      == <<queueVars, rrVars, prioVars, bcVars, regVars, obsVars, netRest,
                cliLife, cmdVars, ctl, updateCall, sessOut,
                obsNotify,
                prioRun>>
notCliLife  == <<queueVars, rrVars, prioVars, bcVars, regVars, obsVars, netSession,
                srvVars, cmdVars, ctl, updateCall, sessOut,
                obsNotify,
                prioRun>>
notCommand  == <<queueVars, rrVars, prioVars, bcVars, regVars, obsVars, netVars,
                srvVars, cliLife, ctl, updateCall, sessOut,
                obsNotify,
                prioRun>>
notUpdate   == <<queueVars, rrVars, prioVars, bcVars, obsVars, netVars, srvVars,
                cliLife, cmdVars, ctl, sessOut,
                obsNotify,
                prioRun>>
notSessOut  == <<queueVars, rrVars, prioVars, bcVars, regVars, obsVars, netVars,
                srvVars, cliLife, cmdVars, ctl, updateCall,
                obsNotify,
                prioRun>>
notObsNotify == <<queueVars, rrVars, prioVars, bcVars, regVars, netVars, srvVars,
                  cliLife, cmdVars, ctl, updateCall, sessOut,
                prioRun>>
notPrioRun  == <<queueVars, rrVars, bcVars, regVars, obsVars, netVars, srvVars,
                cliLife, cmdVars, ctl, updateCall, sessOut, obsNotify>>

None == [none |-> TRUE]

\* ---------------------------------------------------------------- bounds
\* calls to CommandQueue::enqueue in one behaviour
MaxEnq == 4
\* queue priorities are drawn from 0..MaxPrio
MaxPrio == 1
\* the steady clock advances at most this many ticks
MaxClock == 2
\* length of the round-robin candidate list
RRMaxUnits == 3
\* RoundRobinStrategy::select_targets calls in one behaviour
RRMaxCalls == 5
\* unit priorities are drawn from -1..MaxUnitPrio
MaxUnitPrio == 1
\* length of a broadcast candidate list
BcMaxUnits == 3
\* Unit objects constructed in one behaviour
MaxUnitObjs == 3
\* send_message calls in one behaviour, client and server together
MaxSends == 3
\* Unit objects constructed in one behaviour with updates and passing time
MaxLiveUnits == 2
\* calls of TcpServer::start that start the server, in one behaviour
MaxStarts == 2
\* clients that connect to the server in one behaviour
MaxConns == 2
\* frames the server writes in one behaviour of its life cycle
MaxSrvWrites == 1
\* messages the server's sessions receive in one behaviour of its life cycle
MaxSrvReads == 1
\* frames the client writes in one behaviour of its life cycle
MaxCliWrites == 1
\* advances of the registry's steady clock in one behaviour
MaxRegTicks == 2
\* update_unit_status / update_unit_position calls in one behaviour
MaxRegUpdates == 2
\* send_message calls on the one session whose output is followed
MaxSessionSends == 3
\* Command objects constructed in one behaviour
MaxCommands == 3

\* ------------------------------------------------------------ domain types
\* enum class CommandType
CommandTypes == {"MOVE", "REPORT", "ALERT", "SHUTDOWN"}

\* the UnitId values the callers use
UnitIds == {"A", "B", "C", "D"}

\* the sequences over S of length lo..hi
SeqsOf(S, lo, hi) == UNION {[1..n -> S] : n \in lo..hi}

Range(f) == {f[i] : i \in DOMAIN f}

\* the candidate lists of the priority strategy: the list of the strategy's
\* test, {unit2, unit1, unit3, unit4}, and every list left when units drop out
\* of it (std::sort's result does not depend on the order of its input beyond
\* the order of equivalent elements, which SortedCopies leaves open)
PrioTestList == <<"B", "A", "C", "D">>
RECURSIVE Keep(_, _)
Keep(q, S) ==
  IF q = <<>> THEN <<>>
  ELSE IF q[1] \in S THEN <<q[1]>> \o Keep(Tail(q), S) ELSE Keep(Tail(q), S)
PrioLists == {Keep(PrioTestList, S) : S \in SUBSET UnitIds}

\* the state of a component that a specification leaves alone
IdleQueue ==
  /\ queue_ = <<>> /\ clock = 0 /\ enqueued = <<>> /\ dequeued = <<>>
  /\ qOp = "none" /\ qRet = None
IdleRR ==
  /\ current_index_ = 0 /\ rrUnits = <<>> /\ rrCalls = 0 /\ rrMoves = 0
  /\ rrLast = None /\ rrRun = <<>>
IdlePrio == unit_priorities_ = <<>> /\ prioLast = None
IdleBcast == bcLast = None
IdleRegistry ==
  /\ units_ = <<>> /\ unitObj = <<>> /\ regSet = {} /\ regLatest = <<>>
  /\ regClock = 0 /\ regTicks = 0 /\ regUpdates = 0
  /\ lastWrite = <<>>
IdleObs ==
  /\ observers_ = [bus \in {"telemetry", "command"} |-> <<>>]
  /\ obsState = [s \in {"t1", "t2", "c1", "c2"} |-> "none"]
  /\ obsAdded = [bus \in {"telemetry", "command"} |-> {}]
  /\ obsCalls = <<>> /\ obsLast = None
IdleCommand ==
  /\ counter = 0 /\ commands = <<>>
  /\ ctor = [t \in {"t1", "t2"} |-> None]
  /\ codecLast = None
IdleController ==
  ctl = [running |-> FALSE, strategy |-> "ROUND_ROBIN", worker |-> None,
         sent |-> {}, dropped |-> {}, last |-> None]
IdleUpdate == updateCall = None
IdleSessOut == sessOut = [sends |-> 0, pending |-> <<>>, stream |-> <<>>]
IdlePrioRun ==
  prioRun = [pc |-> "idle", available |-> <<>>, type |-> "", maps |-> {}]
IdleObsNotify == obsNotify = [pc |-> "idle", bus |-> "", notify |-> "", pos |-> 0]
IdleNet ==
  /\ cli = [connected_ |-> FALSE, sock |-> "closed", io |-> "none", read |-> "none",
            body_length |-> 0, connect |-> "none"]
  /\ sess = [accepted |-> FALSE, client_id_ |-> "", connected_ |-> FALSE,
             sock |-> "none", read |-> "none", body_length |-> 0, write |-> "none"]
  /\ clients_ = <<>>
  /\ c2s = <<>> /\ s2c = <<>> /\ cliSent = <<>>
  /\ srvDelivered = <<>> /\ cliDelivered = <<>>
  /\ c2sWire = <<>> /\ s2cWire = <<>>
  /\ srvViolation = None /\ cliViolation = None
  /\ connLog = <<>> /\ cliConnLog = <<>>
  /\ netFault = FALSE
  /\ running_ = FALSE /\ io_thread_ = "none" /\ ioStopped = FALSE
  /\ acceptOps = 0 /\ backlog = 0 /\ srvSess = <<>>
  /\ srvPc = "idle" /\ ioHeld = 0 /\ srvStarts = 0 /\ srvLast = None
  /\ cliLife = [caller |-> "idle", stopped |-> FALSE, handler |-> FALSE,
                last |-> "none", late |-> FALSE, attempts |-> 0, written |-> 0]

\* ------------------------------------------------------------ CommandQueue

\* operator< with the priority comparison turned round: the lower priority on top
EntryLessLowFirst(a, b) ==
  IF a.priority # b.priority
    THEN a.priority > b.priority
    ELSE a.timestamp > b.timestamp

\* CommandEntry::operator< : lower priority is "less"; among equal priorities the
\* LATER timestamp is "less", so that the earlier one is on top of the max-heap.
\* Two entries of equal priority and equal timestamp are equivalent.
EntryLess(a, b) ==
  IF a.priority # b.priority
    THEN a.priority < b.priority
    ELSE a.timestamp > b.timestamp

\* 0-based access to the heap array, as the library's iterators index it
At(h, i) == h[i + 1]
Put(h, i, v) == [h EXCEPT ![i + 1] = v]

\* std::__push_heap: move the hole up while the parent is less than the value
RECURSIVE PushHeap(_, _, _, _)
PushHeap(h, holeIndex, topIndex, value) ==
  LET parent == (holeIndex - 1) \div 2 IN
  IF holeIndex > topIndex /\ EntryLess(At(h, parent), value)
    THEN PushHeap(Put(h, holeIndex, At(h, parent)), parent, topIndex, value)
    ELSE Put(h, holeIndex, value)

\* the while loop of std::__adjust_heap: move the hole down to the larger child
RECURSIVE SiftDown(_, _, _, _)
SiftDown(h, holeIndex, secondChild, len) ==
  IF secondChild < (len - 1) \div 2
    THEN LET sc == 2 * (secondChild + 1)
             c  == IF EntryLess(At(h, sc), At(h, sc - 1)) THEN sc - 1 ELSE sc
         IN  SiftDown(Put(h, holeIndex, At(h, c)), c, c, len)
    ELSE [h |-> h, holeIndex |-> holeIndex, secondChild |-> secondChild]

\* std::__adjust_heap(first, holeIndex, len, value)
AdjustHeap(h, holeIndex, len, value) ==
  LET d  == SiftDown(h, holeIndex, holeIndex, len)
      sc == 2 * (d.secondChild + 1)
      e  == IF len % 2 = 0 /\ d.secondChild = (len - 2) \div 2
              THEN [h |-> Put(d.h, d.holeIndex, At(d.h, sc - 1)), holeIndex |-> sc - 1]
              ELSE [h |-> d.h, holeIndex |-> d.holeIndex]
  IN  PushHeap(e.h, e.holeIndex, holeIndex, value)

\* priority_queue::emplace: c.emplace_back(entry); std::push_heap(c.begin(), c.end())
PQPush(h, entry) == PushHeap(Append(h, entry), Len(h), 0, entry)

\* priority_queue::top: c.front()
PQTop(h) == h[1]

\* a pop that takes the last two entries off the heap
PQPopLosesOne(h) ==
  LET n == Len(h) IN
  IF n > 1
    THEN SubSeq(AdjustHeap(Put(h, n - 1, h[1]), 0, n - 1, h[n]), 1, n - 2)
    ELSE <<>>

\* priority_queue::pop: std::pop_heap(c.begin(), c.end()); c.pop_back()
PQPop(h) ==
  LET n == Len(h) IN
  IF n > 1
    THEN SubSeq(AdjustHeap(Put(h, n - 1, h[1]), 0, n - 1, h[n]), 1, n - 1)
    ELSE <<>>

\* CommandEntry(cmd, prio): the timestamp is read from the steady clock
CommandEntry(cmd, prio) == [command |-> cmd, priority |-> prio, timestamp |-> clock]

\* CommandQueue::enqueue(command, priority)
Enqueue(prio) ==
  /\ Len(enqueued) < MaxEnq
  /\ LET entry == CommandEntry(Len(enqueued) + 1, prio) IN
       /\ queue_' = PQPush(queue_, entry)
       /\ enqueued' = Append(enqueued, entry)
  /\ qOp' = "enqueue"
  /\ UNCHANGED <<clock, dequeued, qRet>>
  /\ UNCHANGED notQueue

\* CommandQueue::dequeue()
Dequeue ==
  /\ qOp' = "dequeue"
  /\ IF queue_ = <<>>
       THEN /\ qRet' = None
            /\ UNCHANGED <<queue_, dequeued>>
       ELSE /\ qRet' = PQTop(queue_)
            /\ queue_' = PQPop(queue_)
            /\ dequeued' = Append(dequeued, PQTop(queue_).command)
  /\ UNCHANGED <<clock, enqueued>>
  /\ UNCHANGED notQueue

\* CommandQueue::size()
QueueSize == Len(queue_)

\* CommandQueue::empty()
QueueEmpty == queue_ = <<>>

\* steady_clock advances between two calls; it never goes back, and two calls
\* with no tick between them read the same time_point
QueueTick ==
  /\ clock < MaxClock
  /\ clock' = clock + 1
  /\ UNCHANGED <<queue_, enqueued, dequeued, qOp, qRet>>
  /\ UNCHANGED notQueue

\* a default-constructed CommandQueue
InitQueue == IdleQueue /\ IdleRR /\ IdlePrio /\ IdleBcast /\ IdleRegistry /\ IdleNet /\ IdleObs
  /\ IdleController
  /\ IdleUpdate
  /\ IdleSessOut
  /\ IdleObsNotify
  /\ IdlePrioRun
  /\ IdleCommand

NextQueue ==
  \/ \E prio \in 0..MaxPrio : Enqueue(prio)
  \/ Dequeue
  \/ QueueTick

SpecQueue == InitQueue /\ [][NextQueue]_vars

\* ---------------------------------------------------- CommandQueue: claims

\* C1: every dequeue on a non-empty queue removes and returns an entry whose
\* priority is greater than or equal to the priority of every entry that
\* remains in the queue.
C1_DequeueReturnsHighestPriority ==
  (qOp = "dequeue" /\ qRet # None) =>
    \A i \in 1..Len(queue_) : qRet.priority >= queue_[i].priority

\* a dequeue returned a later command ahead of an earlier one of lower priority
\* that is still queued, with at least two entries left behind
C1_Witness ==
  /\ qOp = "dequeue" /\ qRet # None
  /\ Len(queue_) >= 2
  /\ \E i \in 1..Len(queue_) :
       /\ queue_[i].priority < qRet.priority
       /\ queue_[i].command < qRet.command

\* C2: among entries of equal priority dequeue is FIFO: when command a was
\* enqueued before command b with the same priority, a is dequeued before b.
C2_FifoAmongEqualPriority ==
  \A j \in 1..Len(dequeued) : \A a \in 1..Len(enqueued) :
    (a < dequeued[j] /\ enqueued[a].priority = enqueued[dequeued[j]].priority)
      => \E i \in 1..(j - 1) : dequeued[i] = a

\* the commands the queue holds, and how often it holds command c
QueuedCount(c) == Cardinality({i \in DOMAIN queue_ : queue_[i].command = c})
DequeuedCount(c) == Cardinality({j \in DOMAIN dequeued : dequeued[j] = c})

\* C34: the queue conserves commands under every interleaving of enqueue and
\* dequeue calls (each call runs under queue_mutex_ from its first statement to
\* its return, so the calls of all threads form one sequence): every enqueued
\* command has been returned by exactly one dequeue or is still queued, never
\* both and never twice; size() is the number of enqueues minus the number of
\* dequeues that returned a value; empty() holds exactly when size() is 0; and
\* a dequeue on an empty queue returns no value and changes nothing.
C34_QueueConservesCommands ==
  [][/\ \A c \in 1..Len(enqueued') : QueuedCount(c)' + DequeuedCount(c)' = 1
     /\ \A i \in DOMAIN queue_' : queue_'[i] = enqueued'[queue_'[i].command]
     /\ QueueSize' = Len(enqueued') - Len(dequeued')
     /\ QueueEmpty' <=> (QueueSize' = 0)
     /\ (qOp' = "dequeue" /\ clock' = clock /\ queue_ = <<>>) =>
          /\ qRet' = None
          /\ queue_' = queue_ /\ enqueued' = enqueued /\ dequeued' = dequeued]_vars

\* enqueues and dequeues have alternated: a command enqueued after a dequeue
\* is still queued beside one enqueued before it, and the last call was a
\* dequeue that returned a value
C34_Witness ==
  /\ qOp = "dequeue" /\ qRet # None
  /\ Len(dequeued) >= 2 /\ Len(queue_) >= 2
  /\ \E i \in DOMAIN queue_ : queue_[i].command < dequeued[1]
  /\ \E i \in DOMAIN queue_ : queue_[i].command > dequeued[1]

\* ------------------------------------------------------ RoundRobinStrategy

\* a counter that is read and not advanced
FetchAddLost(n) == n

\* fetch_add(1) on a std::atomic counter: the value the counter has afterwards
\* (the counters are 64 bits wide and wrap after 2^64 calls, far beyond
\* MaxCommands and RRMaxCalls); the call returns the value n it had before
FetchAdd(n) == n + 1

\* the one-unit branch with the cursor incremented before it is read
RRPickPreIncrement(available, index) == available[((index + 1) % Len(available)) + 1]

\* available_units[index % available_units.size()], the vector being 0-based
RRPick(available, index) == available[(index % Len(available)) + 1]

\* select_targets with the cursor advanced for a REPORT command as well
RRSelectTargetsReportAdvances(available, type) ==
  IF available = <<>>
    THEN [result |-> <<>>, index |-> current_index_]
    ELSE IF type = "REPORT"
      THEN [result |-> available, index |-> current_index_ + 1]
      ELSE [result |-> <<RRPick(available, current_index_)>>,
            index  |-> current_index_ + 1]

\* RoundRobinStrategy::select_targets: the result and the cursor it leaves.
\* fetch_add(1) returns the old value; size_t wraps at 2^64, which the bound
\* RRMaxCalls keeps out of reach.
RRSelectTargets(available, type) ==
  IF available = <<>>
    THEN [result |-> <<>>, index |-> current_index_]
    ELSE IF type = "MOVE"
      THEN [result |-> <<RRPick(available, current_index_)>>,
            index  |-> current_index_ + 1]
      ELSE IF type = "REPORT"
        THEN [result |-> available, index |-> current_index_]
        ELSE [result |-> <<RRPick(available, current_index_)>>,
              index  |-> current_index_ + 1]

\* one call of select_targets, on the caller's list or on an empty list
RRSelect(available, type) ==
  /\ rrCalls < RRMaxCalls
  /\ LET r == RRSelectTargets(available, type) IN
       /\ current_index_' = r.index
       /\ rrLast' = [type |-> type, available |-> available, result |-> r.result]
  /\ rrCalls' = rrCalls + 1
  /\ rrMoves' = IF available # <<>> /\ type # "REPORT" THEN rrMoves + 1 ELSE rrMoves
  /\ UNCHANGED <<rrUnits, rrRun>>
  /\ UNCHANGED notRR

\* RoundRobinStrategy(): current_index_(0); the caller's list is any non-empty one
InitRR ==
  /\ current_index_ = 0
  /\ rrUnits \in SeqsOf(UnitIds \ {"D"}, 1, RRMaxUnits)
  /\ rrCalls = 0 /\ rrMoves = 0 /\ rrLast = None /\ rrRun = <<>>
  /\ IdleQueue /\ IdlePrio /\ IdleBcast /\ IdleRegistry /\ IdleNet /\ IdleObs
  /\ IdleController
  /\ IdleUpdate
  /\ IdleSessOut
  /\ IdleObsNotify
  /\ IdlePrioRun
  /\ IdleCommand

NextRR == \E available \in {rrUnits, <<>>}, type \in CommandTypes : RRSelect(available, type)

SpecRR == InitRR /\ [][NextRR]_vars

\* -------------------------------- RoundRobinStrategy: concurrent selections

\* thread t in select_targets for a MOVE command on rrUnits: the test for an
\* empty list, the test of the type and current_index_.fetch_add(1), which
\* reads the cursor and advances it in one atomic step
RRRaceFetch(t) ==
  /\ rrRun[t].pc = "idle"
  /\ rrUnits # <<>>
  /\ rrRun' = [rrRun EXCEPT ![t] = [pc |-> "fetched", index |-> current_index_,
                                    result |-> <<>>]]
  /\ current_index_' = FetchAdd(current_index_)
  /\ UNCHANGED <<rrUnits, rrCalls, rrMoves, rrLast>>
  /\ UNCHANGED notRR

\* the rest of the call, on the thread's own index and result:
\* result.push_back(available_units[index % size]); return result
RRRaceReturn(t) ==
  /\ rrRun[t].pc = "fetched"
  /\ rrRun' = [rrRun EXCEPT ![t].pc = "done",
                            ![t].result = <<RRPick(rrUnits, rrRun[t].index)>>]
  /\ UNCHANGED <<current_index_, rrUnits, rrCalls, rrMoves, rrLast>>
  /\ UNCHANGED notRR

\* a fresh strategy, a list of n units and n threads about to call
InitRRRace ==
  /\ current_index_ = 0
  /\ rrUnits \in SeqsOf(UnitIds \ {"D"}, 1, RRMaxUnits)
  /\ rrCalls = 0 /\ rrMoves = 0 /\ rrLast = None
  /\ rrRun = [t \in 1..Len(rrUnits) |-> [pc |-> "idle", index |-> 0, result |-> <<>>]]
  /\ IdleQueue /\ IdlePrio /\ IdleBcast /\ IdleRegistry /\ IdleNet /\ IdleObs
  /\ IdleController
  /\ IdleUpdate
  /\ IdleSessOut
  /\ IdleObsNotify
  /\ IdlePrioRun
  /\ IdleCommand

NextRRRace ==
  \/ \E t \in DOMAIN rrRun : RRRaceFetch(t)
  \/ \E t \in DOMAIN rrRun : RRRaceReturn(t)

SpecRRRace == InitRRRace /\ [][NextRRRace]_vars

\* ------------------------------------------------ RoundRobinStrategy: claims

\* C35: concurrent selections never observe the same cursor value: no two
\* threads have been given the same index, and when the n threads have all
\* returned from their MOVE selection on a fresh strategy over n units, every
\* position of the list has been selected by exactly one of them.
C35_ConcurrentSelectionsDistinct ==
  /\ \A t, u \in DOMAIN rrRun :
       (t # u /\ rrRun[t].pc # "idle" /\ rrRun[u].pc # "idle") =>
         rrRun[t].index # rrRun[u].index
  /\ (\A t \in DOMAIN rrRun : rrRun[t].pc = "done") =>
       \A p \in DOMAIN rrUnits :
         Cardinality({t \in DOMAIN rrRun :
                        /\ (rrRun[t].index % Len(rrUnits)) + 1 = p
                        /\ rrRun[t].result = <<rrUnits[p]>>}) = 1

\* three threads have returned from selections over three distinct units, and
\* the thread that called last in program order was not the last to fetch
C35_Witness ==
  /\ Len(rrUnits) = 3 /\ Cardinality({rrUnits[p] : p \in DOMAIN rrUnits}) = 3
  /\ \A t \in DOMAIN rrRun : rrRun[t].pc = "done"
  /\ rrRun[3].index = 0 /\ rrRun[1].index = 1


\* C6: on a fresh strategy and an unchanged non-empty list of n units, the k-th
\* (from 0) selection for a MOVE or any other non-REPORT command returns exactly
\* one unit, available[k mod n].
C6_RoundRobinCycles ==
  (rrLast # None /\ rrLast.available # <<>> /\ rrLast.type # "REPORT") =>
    rrLast.result = <<rrUnits[((rrMoves - 1) % Len(rrUnits)) + 1]>>

\* the fourth one-unit selection over three distinct units, with a REPORT or an
\* empty-list call among the calls before it, is the first unit again
C6_Witness ==
  /\ rrLast # None /\ rrLast.type = "ALERT" /\ rrLast.available = rrUnits
  /\ Len(rrUnits) = 3 /\ Cardinality(Range(rrUnits)) = 3
  /\ rrMoves = 4 /\ rrCalls = 5
  /\ rrLast.result = <<rrUnits[1]>>

\* C7: select_targets leaves the cursor unchanged for a REPORT command, which
\* returns all available units in input order, and for an empty list, which
\* returns an empty result.
C7_ReportAndEmptyKeepCursor ==
  [][(rrCalls' # rrCalls /\ (rrLast'.type = "REPORT" \/ rrLast'.available = <<>>))
       => (current_index_' = current_index_ /\ rrLast'.result = rrLast'.available)]_vars

\* a REPORT call on a list of several units, made after the cursor has moved
C7_Witness ==
  /\ rrLast # None /\ rrLast.type = "REPORT"
  /\ Len(rrLast.result) >= 2 /\ rrLast.result = rrUnits
  /\ current_index_ >= 1

\* -------------------------------------------------------- PriorityStrategy

\* PriorityStrategy::get_priority_or_default: 0 for a unit never assigned one
get_priority_or_default(unit_id) ==
  IF unit_id \in DOMAIN unit_priorities_ THEN unit_priorities_[unit_id] ELSE 0

\* the comparison turned round: lower priority first
PriorityBeforeAscending(a, b) == get_priority_or_default(a) < get_priority_or_default(b)

\* the lambda handed to std::sort: a goes before b when its priority is higher
PriorityBefore(a, b) == get_priority_or_default(a) > get_priority_or_default(b)

\* what std::sort may leave in sorted_units: the permutations of the input in
\* which no element goes before an earlier one. The order of equivalent elements
\* is unspecified, so every such permutation is a possible outcome. They are
\* built front to back over the positions I of the input still to be placed:
\* the next element is any one that no remaining element goes before.
RECURSIVE SortedFrom(_, _)
SortedFrom(available, I) ==
  IF I = {} THEN {<<>>}
  ELSE UNION {{<<available[i]>> \o t : t \in SortedFrom(available, I \ {i})} :
                i \in {i \in I : \A j \in I : ~PriorityBefore(available[j], available[i])}}

SortedCopies(available) == SortedFrom(available, DOMAIN available)

\* how many units select_targets returns: std::min(size_t(3), size) for REPORT,
\* one for MOVE and for every other type
PrioCount(type, n) ==
  IF type = "MOVE" THEN 1
  ELSE IF type = "REPORT" THEN (IF n < 3 THEN n ELSE 3)
  ELSE 1

\* PriorityStrategy::select_targets
PrioSelect(available, type) ==
  /\ IF available = <<>>
       THEN prioLast' = [type |-> type, available |-> available, result |-> <<>>]
       ELSE \E result \in {SubSeq(sorted_units, 1, PrioCount(type, Len(sorted_units))) :
                               sorted_units \in SortedCopies(available)} :
              prioLast' = [type |-> type, available |-> available, result |-> result]
  /\ UNCHANGED unit_priorities_
  /\ UNCHANGED notPrio

\* PriorityStrategy::set_unit_priority: unit_priorities_[unit_id] = priority
SetUnitPriority(unit_id, priority) ==
  /\ unit_priorities_' =
       [u \in DOMAIN unit_priorities_ \cup {unit_id} |->
          IF u = unit_id THEN priority ELSE unit_priorities_[u]]
  /\ unit_priorities_' # unit_priorities_
  /\ prioLast' = None
  /\ UNCHANGED notPrio

\* PriorityStrategy() = default: an empty priority map
InitPrio ==
  /\ unit_priorities_ = <<>> /\ prioLast = None
  /\ IdleQueue /\ IdleRR /\ IdleBcast /\ IdleRegistry /\ IdleNet /\ IdleObs
  /\ IdleController
  /\ IdleUpdate
  /\ IdleSessOut
  /\ IdleObsNotify
  /\ IdlePrioRun
  /\ IdleCommand

NextPrio ==
  \/ \E available \in PrioLists, type \in CommandTypes :
       PrioSelect(available, type)
  \/ \E unit_id \in UnitIds, priority \in (-1)..MaxUnitPrio :
       SetUnitPriority(unit_id, priority)

SpecPrio == InitPrio /\ [][NextPrio]_vars

\* ------------------------- PriorityStrategy: select_targets beside a setter
\* PriorityStrategy has no mutex: set_unit_priority writes unit_priorities_
\* while the comparisons of a running std::sort read it through
\* get_priority_or_default. One thread selects, another sets.

\* get_priority_or_default on the map m
PriorityIn(m, unit_id) == IF unit_id \in DOMAIN m THEN m[unit_id] ELSE 0

\* the lambda of std::sort answered from the map m
PriorityBeforeIn(m, a, b) == PriorityIn(m, a) > PriorityIn(m, b)

\* the orders of the positions I of a list, each as a sequence of positions
RECURSIVE OrdersOf(_)
OrdersOf(I) ==
  IF I = {} THEN {<<>>}
  ELSE UNION {{<<i>> \o t : t \in OrdersOf(I \ {i})} : i \in I}

\* what std::sort may leave in sorted_units when each of its comparisons is
\* answered from one of the maps M: every neighbouring pair of the result is
\* in an order that some map allows. With one map these are the sorted copies.
SortedAmong(M, available) ==
  {[k \in DOMAIN available |-> available[o[k]]] : o \in
     {o \in OrdersOf(DOMAIN available) :
        \A k \in 1..(Len(available) - 1) :
          \E m \in M : ~PriorityBeforeIn(m, available[o[k + 1]], available[o[k]])}}

\* the results select_targets can return from the maps M
SelectedAmong(M, available, type) ==
  IF available = <<>> THEN {<<>>}
  ELSE {SubSeq(sorted_units, 1, PrioCount(type, Len(sorted_units))) :
          sorted_units \in SortedAmong(M, available)}

\* unit_priorities_[unit_id] = priority
PrioAssign(m, unit_id, priority) ==
  [u \in DOMAIN m \cup {unit_id} |-> IF u = unit_id THEN priority ELSE m[u]]

\* select_targets up to the copy of available_units: the sort is to run
PrioSelectBegin(available, type) ==
  /\ prioRun.pc \in {"idle", "done"}
  /\ prioRun' = [pc |-> "sorting", available |-> available, type |-> type,
                 maps |-> {unit_priorities_}]
  /\ prioLast' = None
  /\ UNCHANGED unit_priorities_
  /\ UNCHANGED notPrioRun

\* set_unit_priority by another thread while the sort runs (once per selection)
PrioSetWhileSorting(unit_id, priority) ==
  /\ prioRun.pc = "sorting" /\ Cardinality(prioRun.maps) = 1
  /\ unit_priorities_' = PrioAssign(unit_priorities_, unit_id, priority)
  /\ unit_priorities_' # unit_priorities_
  /\ prioRun' = [prioRun EXCEPT !.maps = @ \cup {unit_priorities_'}]
  /\ UNCHANGED prioLast
  /\ UNCHANGED notPrioRun

\* set_unit_priority while no selection runs
PrioSetAlone(unit_id, priority) ==
  /\ prioRun.pc \in {"idle", "done"}
  /\ unit_priorities_' = PrioAssign(unit_priorities_, unit_id, priority)
  /\ unit_priorities_' # unit_priorities_
  /\ prioRun' = [prioRun EXCEPT !.pc = "idle"]
  /\ prioLast' = None
  /\ UNCHANGED notPrioRun

\* the rest of select_targets: the sort and the choice of the result. If the
\* map was written meanwhile, the reads raced with the write: comparisons see
\* the one map or the other, or the process is brought down (a find in a
\* table being rehashed, a std::sort whose comparisons contradict each other)
PrioSelectEnd(crash) ==
  /\ prioRun.pc = "sorting"
  /\ IF crash
       THEN /\ Cardinality(prioRun.maps) > 1
            /\ prioRun' = [prioRun EXCEPT !.pc = "crashed"]
            /\ UNCHANGED prioLast
       ELSE /\ prioRun' = [prioRun EXCEPT !.pc = "done"]
            /\ \E result \in SelectedAmong(prioRun.maps, prioRun.available, prioRun.type) :
                 prioLast' = [type |-> prioRun.type, available |-> prioRun.available,
                              result |-> result]
  /\ UNCHANGED unit_priorities_
  /\ UNCHANGED notPrioRun

\* the candidate list of the selections that are followed beside a setter,
\* and the units whose priority is set
PrioRaceLists == {<<"B", "A", "C">>}
PrioRaceUnits == {"A", "B", "C"}

NextPrioRace ==
  \/ \E available \in PrioRaceLists, type \in {"MOVE", "REPORT"} :
       PrioSelectBegin(available, type)
  \/ \E unit_id \in PrioRaceUnits, priority \in (-1)..MaxUnitPrio :
       PrioSetWhileSorting(unit_id, priority)
  \/ \E unit_id \in PrioRaceUnits, priority \in (-1)..MaxUnitPrio :
       PrioSetAlone(unit_id, priority)
  \/ \E crash \in BOOLEAN : PrioSelectEnd(crash)

SpecPrioRace == InitPrio /\ [][NextPrioRace]_vars

\* C33: a select_targets call that runs concurrently with set_unit_priority
\* returns, and its result is one it would return with the priority map as it
\* was either entirely before or entirely after that set.
C33_SelectSeesMapBeforeOrAfter ==
  /\ prioRun.pc # "crashed"
  /\ (prioRun.pc = "done" /\ prioLast # None) =>
       \E m \in prioRun.maps :
         prioLast.result \in SelectedAmong({m}, prioLast.available, prioLast.type)

\* -------------------------------------------------- PriorityStrategy: claims

\* C8: on a non-empty list of n units select_targets returns the first k units of
\* an ordering of the input by non-increasing priority (0 for a unit never
\* assigned one), k = min(3, n) for REPORT and 1 for every other type: every
\* returned unit has priority at least that of every unit not returned, and the
\* result is in non-increasing priority order.
C8_PriorityTopK ==
  (prioLast # None /\ prioLast.available # <<>>) =>
    LET res  == prioLast.result
        av   == prioLast.available
        n    == Len(av)
        k    == IF prioLast.type = "REPORT" THEN (IF n < 3 THEN n ELSE 3) ELSE 1
        P(u) == IF u \in DOMAIN unit_priorities_ THEN unit_priorities_[u] ELSE 0
    IN  /\ Len(res) = k
        /\ Range(res) \subseteq Range(av)
        /\ \A i, j \in 1..k : res[i] = res[j] => i = j
        /\ \A u \in Range(res), w \in Range(av) \ Range(res) : P(u) >= P(w)
        /\ \A i, j \in 1..k : i < j => P(res[i]) >= P(res[j])

\* a REPORT selection over four candidates: the top three are returned in
\* descending order, a unit left at the default priority is among them, and the
\* unit left out is the first of the input, set below the default
C8_Witness ==
  /\ prioLast # None /\ prioLast.type = "REPORT" /\ Len(prioLast.available) = 4
  /\ Len(prioLast.result) = 3
  /\ prioLast.result[3] \notin DOMAIN unit_priorities_
  /\ prioLast.available[1] \notin Range(prioLast.result)
  /\ get_priority_or_default(prioLast.available[1]) = -1
  /\ get_priority_or_default(prioLast.result[1]) = 1
  /\ prioLast.result[2] \in DOMAIN unit_priorities_
  /\ get_priority_or_default(prioLast.result[2]) = 0

\* ------------------------------------------------------- BroadcastStrategy

\* select_targets that returns each unit once (the input deduplicated)
RECURSIVE Dedup(_)
Dedup(q) ==
  IF q = <<>> THEN <<>>
  ELSE LET r == Dedup(SubSeq(q, 1, Len(q) - 1)) IN
       IF q[Len(q)] \in Range(r) THEN r ELSE Append(r, q[Len(q)])

\* a selection that returns the first unit only
BroadcastSelectTargetsFirst(available, type) ==
  IF available = <<>> THEN <<>> ELSE <<available[1]>>

BroadcastSelectTargetsDedup(available, type) == Dedup(available)

\* BroadcastStrategy::select_targets: return available_units
BroadcastSelectTargets(available, type) == available

\* one call of select_targets; the class has no member to carry to the next call
BcastSelect(available, type) ==
  /\ bcLast' = [type |-> type, available |-> available,
                result |-> BroadcastSelectTargets(available, type)]
  /\ UNCHANGED notBcast

InitBcast ==
  /\ bcLast = None
  /\ IdleQueue /\ IdleRR /\ IdlePrio /\ IdleRegistry /\ IdleNet /\ IdleObs
  /\ IdleController
  /\ IdleUpdate
  /\ IdleSessOut
  /\ IdleObsNotify
  /\ IdlePrioRun
  /\ IdleCommand

NextBcast ==
  \E available \in SeqsOf(UnitIds, 0, BcMaxUnits), type \in CommandTypes :
    BcastSelect(available, type)

SpecBcast == InitBcast /\ [][NextBcast]_vars

\* ------------------------------------------------- BroadcastStrategy: claims

\* C9: select_targets returns its input list unchanged (same elements, same
\* order, same length) for every command type and every input list, the empty
\* list included, whatever the calls before it were.
C9_BroadcastIdentity ==
  bcLast # None =>
    /\ Len(bcLast.result) = Len(bcLast.available)
    /\ \A i \in 1..Len(bcLast.available) : bcLast.result[i] = bcLast.available[i]

\* a call with a list that names one unit twice, for a command other than REPORT
C9_Witness ==
  /\ bcLast # None /\ bcLast.type = "SHUTDOWN"
  /\ Len(bcLast.available) = 3
  /\ bcLast.available[1] = bcLast.available[3]
  /\ bcLast.result = bcLast.available

\* ------------------------------------------------------------ UnitRegistry

\* the ids the registry's callers use
RegUnitIds == {"A", "B", "C"}

\* enum class UnitStatus
UnitStatuses == {"IDLE", "MOVING", "BUSY", "ERROR", "OFFLINE"}

\* the status the callers of update_unit_status pass
UpdateStatuses == {"OFFLINE"}

\* Position{}: the default initial position of a Unit
Origin == [x |-> 0, y |-> 0, z |-> 0]

\* the positions the callers of update_unit_position pass
UpdatePositions == {[x |-> 100, y |-> 200, z |-> 300]}

\* std::chrono::seconds(30) in Unit::is_online
OnlineTimeout == 30

\* the amounts of time, in seconds, that pass between two calls
TickSteps == {1, OnlineTimeout - 1}

\* Unit::Unit(id, initial_pos = {}) at time now: status IDLE, last_update_ = now
NewUnit(id, now) ==
  [id |-> id, position_ |-> Origin, status_ |-> "IDLE", last_update_ |-> now]

\* Unit::set_status at time now: status_ = status; update_timestamp()
SetStatus(unit, status, now) ==
  [unit EXCEPT !.status_ = status, !.last_update_ = now]

\* Unit::set_position at time now: position_ = pos; update_timestamp()
SetPosition(unit, pos, now) ==
  [unit EXCEPT !.position_ = pos, !.last_update_ = now]

\* Unit::is_online with <= for <
IsOnlineInclusive(unit, now) == (now - unit.last_update_) <= OnlineTimeout

\* Unit::is_online at time now: (now - last_update_) < timeout
IsOnline(unit, now) == (now - unit.last_update_) < OnlineTimeout

\* Unit::Unit(id, initial_pos = {}) through std::make_shared: a new object, which
\* its creator holds whether or not the registry does
CreateUnit(id) ==
  /\ Len(unitObj) < MaxUnitObjs
  /\ unitObj' = Append(unitObj, NewUnit(id, regClock))
  /\ lastWrite' = Append(lastWrite, regClock)
  /\ UNCHANGED <<units_, regSet, regLatest, regClock, regTicks, regUpdates>>
  /\ UNCHANGED notRegistry

\* the map updated as by try_emplace: an id already present keeps its unit
MapKeepExisting(m, key, value) ==
  [k \in DOMAIN m \cup {key} |-> IF k \in DOMAIN m THEN m[k] ELSE value]

\* units_[key] = value: insert, or overwrite the mapped unit
MapAssign(m, key, value) ==
  [k \in DOMAIN m \cup {key} |-> IF k = key THEN value ELSE m[k]]

\* units_.erase(it)
MapErase(m, key) == [k \in DOMAIN m \ {key} |-> m[k]]

\* UnitRegistry::register_unit(unit), unit being the object with handle h
RegisterUnit(h) ==
  /\ h \in DOMAIN unitObj
  /\ units_' = MapAssign(units_, unitObj[h].id, h)
  /\ regSet' = regSet \cup {unitObj[h].id}
  /\ regLatest' = [id \in DOMAIN regLatest \cup {unitObj[h].id} |->
                     IF id = unitObj[h].id THEN h ELSE regLatest[id]]
  /\ UNCHANGED <<unitObj, regClock, regTicks, regUpdates, lastWrite>>
  /\ UNCHANGED notRegistry

\* UnitRegistry::unregister_unit(unit_id): erased if found, else nothing
UnregisterUnit(unit_id) ==
  /\ units_' = IF unit_id \in DOMAIN units_ THEN MapErase(units_, unit_id) ELSE units_
  /\ regSet' = regSet \ {unit_id}
  /\ UNCHANGED <<unitObj, regLatest, regClock, regTicks, regUpdates, lastWrite>>
  /\ UNCHANGED notRegistry

\* nullptr among the handles of Unit objects, which count from 1
NullUnit == 0

\* a lookup that finds any Unit object with the id, registered or not
GetUnitAmongObjects(unit_id) ==
  IF \E h \in DOMAIN unitObj : unitObj[h].id = unit_id
    THEN CHOOSE h \in DOMAIN unitObj : unitObj[h].id = unit_id
    ELSE NullUnit

\* UnitRegistry::get_unit(unit_id): the mapped unit, or nullptr
GetUnit(unit_id) == IF unit_id \in DOMAIN units_ THEN units_[unit_id] ELSE NullUnit

\* UnitRegistry::update_unit_status(unit_id, status): get_unit, and set_status
\* on the unit found
UpdateUnitStatus(unit_id, status) ==
  /\ regUpdates < MaxRegUpdates
  /\ regUpdates' = regUpdates + 1
  /\ LET unit == GetUnit(unit_id) IN
       IF unit # NullUnit
         THEN /\ unitObj' = [unitObj EXCEPT ![unit] = SetStatus(@, status, regClock)]
              /\ lastWrite' = [lastWrite EXCEPT ![unit] = regClock]
         ELSE UNCHANGED <<unitObj, lastWrite>>
  /\ UNCHANGED <<units_, regSet, regLatest, regClock, regTicks>>
  /\ UNCHANGED notRegistry

\* UnitRegistry::update_unit_position(unit_id, position): get_unit, and
\* set_position on the unit found
UpdateUnitPosition(unit_id, position) ==
  /\ regUpdates < MaxRegUpdates
  /\ regUpdates' = regUpdates + 1
  /\ LET unit == GetUnit(unit_id) IN
       IF unit # NullUnit
         THEN /\ unitObj' = [unitObj EXCEPT ![unit] = SetPosition(@, position, regClock)]
              /\ lastWrite' = [lastWrite EXCEPT ![unit] = regClock]
         ELSE UNCHANGED <<unitObj, lastWrite>>
  /\ UNCHANGED <<units_, regSet, regLatest, regClock, regTicks>>
  /\ UNCHANGED notRegistry

\* time passes: std::chrono::steady_clock::now() returns a later value
RegTick(d) ==
  /\ regTicks < MaxRegTicks
  /\ regTicks' = regTicks + 1
  /\ regClock' = regClock + d
  /\ UNCHANGED <<units_, unitObj, regSet, regLatest, regUpdates, lastWrite>>
  /\ UNCHANGED notRegistry

\* UnitRegistry::get_all_unit_ids(): one push_back per map entry, in the map's
\* iteration order, which is unspecified (here: some fixed order of the keys)
RECURSIVE KeysInSomeOrder(_)
KeysInSomeOrder(K) ==
  IF K = {} THEN <<>>
  ELSE LET k == CHOOSE k \in K : TRUE IN <<k>> \o KeysInSomeOrder(K \ {k})

GetAllUnitIds == KeysInSomeOrder(DOMAIN units_)

\* UnitRegistry::get_online_units(): the keys whose unit is_online(), in the
\* map's iteration order
GetOnlineUnits ==
  KeysInSomeOrder({id \in DOMAIN units_ : IsOnline(unitObj[units_[id]], regClock)})

\* UnitRegistry::get_offline_units(): the keys whose unit is not is_online()
\* get_offline_units with a unit counted as online at the very end of its timeout
GetOfflineUnitsInclusive ==
  KeysInSomeOrder({id \in DOMAIN units_ :
                     ~IsOnlineInclusive(unitObj[units_[id]], regClock)})

GetOfflineUnits ==
  KeysInSomeOrder({id \in DOMAIN units_ : ~IsOnline(unitObj[units_[id]], regClock)})

\* UnitRegistry::total_units(): units_.size()
TotalUnits == Cardinality(DOMAIN units_)

\* the singleton's map is empty at first use
InitRegistry == IdleRegistry /\ IdleQueue /\ IdleRR /\ IdlePrio /\ IdleBcast /\ IdleNet /\ IdleObs
  /\ IdleController
  /\ IdleUpdate
  /\ IdleSessOut
  /\ IdleObsNotify
  /\ IdlePrioRun
  /\ IdleCommand

NextRegistry ==
  \/ \E id \in RegUnitIds : CreateUnit(id)
  \/ \E h \in 1..MaxUnitObjs : RegisterUnit(h)
  \/ \E id \in RegUnitIds : UnregisterUnit(id)

SpecRegistry == InitRegistry /\ [][NextRegistry]_vars

\* the ids of the units that are updated
LiveUnitIds == {"A", "B"}

\* the registry with updates and passing time, for fewer units
NextRegUpdates ==
  \/ \E id \in LiveUnitIds : Len(unitObj) < MaxLiveUnits /\ CreateUnit(id)
  \/ \E h \in 1..MaxLiveUnits : RegisterUnit(h)
  \/ \E id \in LiveUnitIds : UnregisterUnit(id)
  \/ \E id \in LiveUnitIds, status \in UpdateStatuses : UpdateUnitStatus(id, status)
  \/ \E id \in LiveUnitIds, position \in UpdatePositions :
       UpdateUnitPosition(id, position)
  \/ \E d \in TickSteps : RegTick(d)

SpecRegUpdates == InitRegistry /\ [][NextRegUpdates]_vars

\* ------------------------------------------------------ UnitRegistry: claims

\* C10: after any sequence of register_unit and unregister_unit calls,
\* get_all_unit_ids() is exactly the set of ids registered and not unregistered
\* since, total_units() is that set's size, and registering an id already present
\* overwrites its unit without adding a second entry: get_unit returns the most
\* recently registered unit.
C10_RegistryTracksRegistrations ==
  /\ Range(GetAllUnitIds) = regSet
  /\ Len(GetAllUnitIds) = Cardinality(regSet)
  /\ TotalUnits = Cardinality(regSet)
  /\ \A id \in RegUnitIds :
       GetUnit(id) = IF id \in regSet THEN regLatest[id] ELSE NullUnit

\* an id registered a second time with another Unit object, while another id,
\* registered and then unregistered, is gone
C10_Witness ==
  /\ \E id \in regSet, h \in DOMAIN unitObj :
       unitObj[h].id = id /\ h < regLatest[id] /\ GetUnit(id) = regLatest[id]
  /\ \E id \in DOMAIN regLatest : id \notin regSet
  /\ TotalUnits = 1

\* C11: a registered unit is in get_online_units() exactly while fewer than 30
\* seconds have passed since its creation or its last status or position write,
\* and in get_offline_units() otherwise; so it is online right after every
\* update, and offline from 30 seconds without a write until the next write.
C11_OnlineWithin30sOfLastWrite ==
  /\ \A id \in DOMAIN units_ :
       /\ id \in Range(GetOnlineUnits) <=> regClock - lastWrite[units_[id]] < 30
       /\ id \in Range(GetOfflineUnits) <=> regClock - lastWrite[units_[id]] >= 30
  /\ Range(GetOnlineUnits) \cup Range(GetOfflineUnits) \subseteq DOMAIN units_

\* a unit created 30 seconds ago and never written is offline, while a unit
\* whose status update_unit_status set 29 seconds ago is online
C11_Witness ==
  \E a, b \in DOMAIN units_ :
    /\ regClock - lastWrite[units_[a]] = 30
    /\ unitObj[units_[a]].status_ = "IDLE"
    /\ a \in Range(GetOfflineUnits)
    /\ regClock - lastWrite[units_[b]] = 29
    /\ unitObj[units_[b]].status_ = "OFFLINE"
    /\ b \in Range(GetOnlineUnits)

\* C12: for an id that is not registered, get_unit returns nullptr, and
\* unregister_unit, update_unit_status and update_unit_position leave the map
\* and every Unit object as they were (nothing is inserted, no unit is written).
C12_UnregisteredIdIsNoOp ==
  [][\A id \in LiveUnitIds \ DOMAIN units_ :
       /\ GetUnit(id) = NullUnit
       /\ (\/ UnregisterUnit(id)
           \/ \E status \in UpdateStatuses : UpdateUnitStatus(id, status)
           \/ \E position \in UpdatePositions : UpdateUnitPosition(id, position))
            => UNCHANGED <<units_, unitObj>>]_vars

\* two updates have been made, and neither the registered unit A nor the Unit
\* object of the unregistered id B has been written: the updates were for B
C12_Witness ==
  /\ regUpdates = 2
  /\ DOMAIN units_ = {"A"}
  /\ "B" \in DOMAIN regLatest
  /\ \A h \in DOMAIN unitObj :
       unitObj[h].status_ = "IDLE" /\ unitObj[h].position_ = Origin

\* UnitRegistry::online_units / offline_units
OnlineUnits == Len(GetOnlineUnits)
OfflineUnits == Len(GetOfflineUnits)

\* C40: taken at one instant (one state of the registry, one reading of the
\* clock), the list of online units and the list of offline units have no id
\* in common and no id twice, together they hold exactly the ids of
\* get_all_unit_ids(), and online_units() + offline_units() = total_units().
C40_OnlineOfflinePartition ==
  LET online  == GetOnlineUnits
      offline == GetOfflineUnits
  IN  /\ Range(online) \cap Range(offline) = {}
      /\ Range(online) \cup Range(offline) = Range(GetAllUnitIds)
      /\ Cardinality(Range(online)) = Len(online)
      /\ Cardinality(Range(offline)) = Len(offline)
      /\ OnlineUnits + OfflineUnits = TotalUnits

\* two units are registered, one online and one whose last write is exactly
\* the timeout ago and which is therefore offline
C40_Witness ==
  /\ TotalUnits = 2 /\ OnlineUnits = 1 /\ OfflineUnits = 1
  /\ \E id \in DOMAIN units_ : regClock - unitObj[units_[id]].last_update_ = OnlineTimeout

\* ------------------------------- UnitRegistry: an update beside other callers
\* update_unit_status and update_unit_position hold units_mutex_ only inside
\* get_unit; the shared_ptr it returns is written after the lock is released.
\* One thread makes the updates, in two steps; register_unit and unregister_unit
\* are calls of other threads, each atomic under units_mutex_.

\* the operations of an update: set_status and set_position
UpdateOps == {"status", "position"}

\* the values passed with an operation
UpdateArgs(op) == IF op = "status" THEN UpdateStatuses ELSE UpdatePositions

\* auto unit = get_unit(unit_id): the lock is taken and released; a nullptr ends
\* the call
UpdateGetUnit(unit_id, op, arg) ==
  /\ updateCall = None
  /\ regUpdates < MaxRegUpdates
  /\ regUpdates' = regUpdates + 1
  /\ updateCall' = IF GetUnit(unit_id) = NullUnit THEN None
                   ELSE [unit_id |-> unit_id, op |-> op, arg |-> arg,
                         unit |-> GetUnit(unit_id)]
  /\ UNCHANGED <<units_, unitObj, regSet, regLatest, regClock, regTicks, lastWrite>>
  /\ UNCHANGED notUpdate

\* if (unit) { unit->set_status(status); } or unit->set_position(position):
\* the write to the Unit object the thread holds, whatever the map holds by now
UpdateSet ==
  /\ updateCall # None
  /\ unitObj' = [unitObj EXCEPT ![updateCall.unit] =
                   IF updateCall.op = "status"
                     THEN SetStatus(@, updateCall.arg, regClock)
                     ELSE SetPosition(@, updateCall.arg, regClock)]
  /\ lastWrite' = [lastWrite EXCEPT ![updateCall.unit] = regClock]
  /\ updateCall' = None
  /\ UNCHANGED <<units_, regSet, regLatest, regClock, regTicks, regUpdates>>
  /\ UNCHANGED notUpdate

NextRegRace ==
  \/ \E id \in LiveUnitIds : Len(unitObj) < MaxLiveUnits /\ CreateUnit(id)
  \/ \E h \in 1..MaxLiveUnits : RegisterUnit(h)
  \/ \E id \in LiveUnitIds : UnregisterUnit(id)
  \/ \E id \in LiveUnitIds, op \in UpdateOps : \E arg \in UpdateArgs(op) :
       UpdateGetUnit(id, op, arg)
  \/ UpdateSet
  \/ \E d \in TickSteps : RegTick(d)

SpecRegRace == InitRegistry /\ [][NextRegRace]_vars

\* C28: update_unit_status / update_unit_position is atomic with respect to a
\* concurrent unregister_unit of the same id: a Unit object is written only
\* while its id is registered, so once unregister_unit has returned no registry
\* update mutates that unit.
C28_UpdateWritesOnlyWhileRegistered ==
  [][\A h \in DOMAIN unitObj :
       unitObj'[h] # unitObj[h] => unitObj[h].id \in DOMAIN units_]_vars

\* ------------------------------------- TelemetryObservable, CommandObservable
\* The two buses have the same code. observers_ is declared as an
\* unordered_set of weak_ptr with std::owner_less: its elements are identified
\* by the object that owns them, so it holds at most one slot for a subscriber.
\* (owner_less stands where unordered_set takes its hash; the model follows
\* the identity the declaration names.)

Buses == {"telemetry", "command"}

\* the subscriber objects: two TelemetryObservers, two CommandObservers
Subscribers == {"t1", "t2", "c1", "c2"}

\* the bus a subscriber's type lets it be added to
BusOf(s) == IF s \in {"t1", "t2"} THEN "telemetry" ELSE "command"

\* the notify functions of a bus
NotifiesOf(bus) ==
  IF bus = "telemetry" THEN {"notify_telemetry"}
  ELSE {"notify_command_sent", "notify_command_completed"}

\* the callback a notify function invokes
CallbackOf(notify) ==
  CASE notify = "notify_telemetry" -> "on_telemetry_received"
    [] notify = "notify_command_sent" -> "on_command_sent"
    [] notify = "notify_command_completed" -> "on_command_completed"

\* the public member functions of TelemetryObservable and CommandObservable
ObservableInterface(bus) == {"add_observer", "remove_observer"} \cup NotifiesOf(bus)

\* insert into a container that keeps equal elements side by side
InsertAgain(slots, s) == Append(slots, s)

\* observers_.insert(observer): nothing if a slot of the same owner is there
Insert(slots, s) == IF s \in Range(slots) THEN slots ELSE Append(slots, s)

\* observers_.erase(observer): the slot of the same owner, if any, is removed
Erase(slots, s) == SelectSeq(slots, LAMBDA x : x # s)

\* observer.lock(): a shared_ptr, non-null while an owner holds the subscriber
Lock(s) == obsState[s] = "alive"

\* the loop of a notify function over observers_: the callback is invoked on
\* every slot whose lock() succeeds, the others are passed over
RECURSIVE NotifyLoop(_, _)
NotifyLoop(slots, callback) ==
  IF slots = <<>> THEN <<>>
  ELSE (IF Lock(Head(slots))
          THEN <<[subscriber |-> Head(slots), callback |-> callback]>>
          ELSE <<>>) \o NotifyLoop(Tail(slots), callback)

\* std::make_shared of a subscriber: its owner holds it
ObsCreate(s) ==
  /\ obsState[s] = "none"
  /\ obsState' = [obsState EXCEPT ![s] = "alive"]
  /\ obsCalls' = <<>> /\ obsLast' = None
  /\ UNCHANGED <<observers_, obsAdded>>
  /\ UNCHANGED notObs

\* the owner drops its last shared_ptr: the subscriber is destroyed
ObsRelease(s) ==
  /\ obsState[s] = "alive"
  /\ obsState' = [obsState EXCEPT ![s] = "released"]
  /\ obsCalls' = <<>> /\ obsLast' = None
  /\ UNCHANGED <<observers_, obsAdded>>
  /\ UNCHANGED notObs

\* add_observer(observer), called by an owner of the subscriber
AddObserver(s) ==
  /\ obsState[s] = "alive"
  /\ observers_' = [observers_ EXCEPT ![BusOf(s)] = Insert(@, s)]
  /\ obsAdded' = [obsAdded EXCEPT ![BusOf(s)] = @ \cup {s}]
  /\ obsCalls' = <<>> /\ obsLast' = None
  /\ UNCHANGED obsState
  /\ UNCHANGED notObs

\* remove_observer(observer), called by an owner of the subscriber
RemoveObserver(s) ==
  /\ obsState[s] = "alive"
  /\ observers_' = [observers_ EXCEPT ![BusOf(s)] = Erase(@, s)]
  /\ obsAdded' = [obsAdded EXCEPT ![BusOf(s)] = @ \ {s}]
  /\ obsCalls' = <<>> /\ obsLast' = None
  /\ UNCHANGED obsState
  /\ UNCHANGED notObs

\* notify_telemetry(report), notify_command_sent(command) or
\* notify_command_completed(command_id, success) on a bus
Notify(bus, notify) ==
  /\ obsCalls' = NotifyLoop(observers_[bus], CallbackOf(notify))
  /\ obsLast' = [bus |-> bus, notify |-> notify]
  /\ UNCHANGED <<observers_, obsState, obsAdded>>
  /\ UNCHANGED notObs

InitObs ==
  /\ IdleObs /\ IdleQueue /\ IdleRR /\ IdlePrio /\ IdleBcast /\ IdleRegistry /\ IdleNet
  /\ IdleController
  /\ IdleUpdate
  /\ IdleSessOut
  /\ IdleObsNotify
  /\ IdlePrioRun
  /\ IdleCommand

NextObs ==
  \/ \E s \in Subscribers : ObsCreate(s)
  \/ \E s \in Subscribers : ObsRelease(s)
  \/ \E s \in Subscribers : AddObserver(s)
  \/ \E s \in Subscribers : RemoveObserver(s)
  \/ \E bus \in Buses : \E notify \in NotifiesOf(bus) : Notify(bus, notify)

SpecObs == InitObs /\ [][NextObs]_vars

\* ------------------------------------ observer buses: a notify call in steps
\* A notify function holds observers_mutex_, a std::mutex, from its first
\* statement to its return, the callbacks included. add_observer and
\* remove_observer take the same mutex, so other threads wait while a notify
\* call is in progress; a callback runs on the notifying thread.

\* what a subscriber's callback does before it returns: nothing with the bus,
\* or a call of a member function of the bus that is notifying it
CallbackDoes == {"returns", "add_observer", "remove_observer", "notify"}

\* what locking a std::mutex does to the thread that owns it already: the
\* behaviour is undefined; the thread waits for itself for ever, or the
\* implementation detects it and lock() throws std::system_error
RelockOutcomes == {"deadlock", "threw"}

\* observers_mutex_ is free
ObserversMutexFree == obsNotify.pc \in {"idle", "threw"}

\* a notify function is entered: std::lock_guard lock(observers_mutex_)
NotifyBegin(bus, notify) ==
  /\ obsNotify.pc = "idle"
  /\ obsNotify' = [pc |-> "loop", bus |-> bus, notify |-> notify, pos |-> 1]
  /\ obsCalls' = <<>> /\ obsLast' = None
  /\ UNCHANGED <<observers_, obsState, obsAdded>>
  /\ UNCHANGED notObsNotify

\* one pass of the loop: observer.lock(), and the callback on the subscriber
\* if it is alive. A callback that calls into the bus reaches a lock_guard on
\* the mutex its own thread holds.
NotifyStep(does, relock) ==
  /\ obsNotify.pc = "loop"
  /\ obsNotify.pos <= Len(observers_[obsNotify.bus])
  /\ LET s == observers_[obsNotify.bus][obsNotify.pos] IN
       IF ~Lock(s)
         THEN /\ obsNotify' = [obsNotify EXCEPT !.pos = @ + 1]
              /\ UNCHANGED obsCalls
         ELSE /\ obsCalls' = Append(obsCalls, [subscriber |-> s,
                                                callback |-> CallbackOf(obsNotify.notify)])
              /\ obsNotify' = IF does = "returns"
                                THEN [obsNotify EXCEPT !.pos = @ + 1]
                                ELSE [obsNotify EXCEPT !.pc = relock]
  /\ UNCHANGED <<observers_, obsState, obsAdded, obsLast>>
  /\ UNCHANGED notObsNotify

\* the loop is over: the notify function returns and the mutex is released
NotifyReturn ==
  /\ obsNotify.pc = "loop"
  /\ obsNotify.pos > Len(observers_[obsNotify.bus])
  /\ obsNotify' = [obsNotify EXCEPT !.pc = "idle"]
  /\ obsLast' = [bus |-> obsNotify.bus, notify |-> obsNotify.notify]
  /\ UNCHANGED <<observers_, obsState, obsAdded, obsCalls>>
  /\ UNCHANGED notObsNotify

\* add_observer and remove_observer of another thread wait for the mutex
NextObsNotify ==
  \/ \E s \in Subscribers : obsNotify.pc = "idle" /\ ObsCreate(s)
  \/ \E s \in Subscribers : ObserversMutexFree /\ AddObserver(s)
  \/ \E s \in Subscribers : ObserversMutexFree /\ RemoveObserver(s)
  \/ \E bus \in Buses : \E notify \in NotifiesOf(bus) : NotifyBegin(bus, notify)
  \/ \E does \in CallbackDoes, relock \in RelockOutcomes : NotifyStep(does, relock)
  \/ NotifyReturn

SpecObsNotify == InitObs /\ [][NextObsNotify]_vars

\* the notifying thread is scheduled
FairObsNotify ==
  /\ WF_vars(\E does \in CallbackDoes, relock \in RelockOutcomes : NotifyStep(does, relock))
  /\ WF_vars(NotifyReturn)

SpecObsNotifyLive == SpecObsNotify /\ FairObsNotify

\* C32: a notification on an observer bus always completes: a callback that
\* calls add_observer, remove_observer or a notify function of the bus that is
\* notifying it returns, and the notify call that invoked it returns.
C32_NotifyAlwaysReturns == (obsNotify.pc = "loop") ~> (obsNotify.pc = "idle")

\* ------------------------------------------------------- observers: claims

\* the number of times a callback was invoked on a subscriber by the notify
\* call that was the last operation (obsCalls is empty after any other)
CallsOn(s, callback) ==
  Cardinality({i \in DOMAIN obsCalls :
                 obsCalls[i] = [subscriber |-> s, callback |-> callback]})

C14_SlotCountExposedAndKept ==
  \A bus \in Buses :
    /\ "get_observer_count" \in ObservableInterface(bus)
    /\ Len(observers_[bus]) = Cardinality(obsAdded[bus])
    /\ (obsLast # None /\ obsLast.bus = bus) =>
         \A s \in obsAdded[bus] : obsState[s] = "released" =>
           CallsOn(s, CallbackOf(obsLast.notify)) = 0

\* -------------------------------------------------------- framed transport
\* One TcpClient (caller thread and background I/O thread) and the session the
\* running, accepting TcpServer creates for it. A stream holds the frames
\* written and not yet read, in order, as TCP delivers them; a frame is its four
\* header bytes and its body, the body kept as the message it came from and its
\* number of bytes.

\* 1024 * 1024: the least body length a receiver refuses
BodyLimit == 1048576

\* the message lengths the senders use: empty, one byte, and either side of the limit
Lengths == {0, 1, BodyLimit - 1, BodyLimit}

\* the ids handle_accept may draw ("client_" + a number in 1000..9999)
ClientIds == {"client_1000", "client_9999"}

\* the header with the length of the body and its terminator counted
EncodeLengthPlusOne(length) ==
  <<((length + 1) \div 16777216) % 256, ((length + 1) \div 65536) % 256,
    ((length + 1) \div 256) % 256, (length + 1) % 256>>

\* static_cast<uint32_t>(message.length()), native_to_big, and the four bytes
\* of the result in memory order: the most significant byte first. (Lengths of
\* 2^32 and more, which the cast truncates, are not among Lengths.)
EncodeLength(length) ==
  <<(length \div 16777216) % 256, (length \div 65536) % 256,
    (length \div 256) % 256, length % 256>>

\* memcpy of header_buffer_ into a uint32_t and big_to_native
DecodeLength(h) == h[1] * 16777216 + h[2] * 65536 + h[3] * 256 + h[4]

\* the server's check with the empty body let through
SessValidBodyLengthAllowsEmpty(body_length) == body_length < 1024 * 1024

\* ClientSession::read_header: body_length > 0 && body_length < 1024 * 1024
SessValidBodyLength(body_length) == body_length > 0 /\ body_length < 1024 * 1024

\* TcpClient::ClientImpl::read_header: body_length > 0 && body_length < 1024 * 1024
CliValidBodyLength(body_length) == body_length > 0 /\ body_length < 1024 * 1024

\* the frame send_message writes for a message: header, then the body
Frame(msg, length) ==
  [hdr |-> EncodeLength(length), msg |-> msg, len |-> length, complete |-> TRUE]

\* std::string message(body_buffer_.data(), bytes_transferred): the bytes read
\* for the body. They are the frame's message when the length read from the
\* header is the length of the body sent; bytes cut elsewhere are no message sent.
BodyRead(frame, bytes_transferred) ==
  [msg |-> IF bytes_transferred = frame.len THEN frame.msg ELSE "garbled",
   len |-> bytes_transferred]

\* the handler called with the newest message ahead of the earlier ones
HandlerCallFirst(log, call) == <<call>> \o log

\* one more call of a message handler, after those before it
HandlerCall(log, call) == Append(log, call)

\* ClientSession::close: connected_.exchange(false), then socket_.close
SessClose(s) ==
  IF s.connected_ THEN [s EXCEPT !.connected_ = FALSE, !.sock = "closed"] ELSE s

\* the client's process has ended in std::terminate
CliTerminated == cli.io = "terminated"

\* sends so far that were reported as sent or reached the wire
NetSends == Len(cliSent) + Len(s2cWire)

\* TcpClient::ClientImpl::connect up to the wait: async_connect is issued and
\* the I/O thread started. (The wait loop that follows only reads connected_.
\* This specification follows one connection: the client's first connect.)
CliConnect ==
  /\ ~CliTerminated /\ ~cli.connected_ /\ cli.connect = "none"
  /\ cli' = [cli EXCEPT !.connect = "pending", !.io = "running", !.sock = "connecting"]
  /\ UNCHANGED <<sess, clients_, c2s, s2c, cliSent, srvDelivered, cliDelivered,
                 c2sWire, s2cWire, srvViolation, cliViolation, connLog, cliConnLog,
                 netFault>>
  /\ UNCHANGED notNet

\* TcpClient::ClientImpl::handle_connect, on the I/O thread
CliHandleConnect(error) ==
  /\ ~CliTerminated /\ cli.connect = "pending" /\ cli.io = "running"
  /\ IF ~error
       THEN /\ cli' = [cli EXCEPT !.connected_ = TRUE, !.sock = "open",
                                  !.connect = "established", !.read = "header"]
            /\ cliConnLog' = Append(cliConnLog, TRUE)
            /\ UNCHANGED netFault
       ELSE /\ cli' = [cli EXCEPT !.connect = "failed"]
            /\ netFault' = TRUE
            /\ UNCHANGED cliConnLog
  /\ UNCHANGED <<sess, clients_, c2s, s2c, cliSent, srvDelivered, cliDelivered,
                 c2sWire, s2cWire, srvViolation, cliViolation, connLog>>
  /\ UNCHANGED notNet

\* TcpClient::ClientImpl::disconnect on the caller's thread: the socket is
\* closed, the I/O context stopped and its thread joined, so no handler runs
\* any more; then connection_handler_(false)
CallerDisconnect(c) ==
  IF c.connected_
    THEN [c EXCEPT !.connected_ = FALSE, !.sock = "closed", !.io = "joined",
                   !.read = "none"]
    ELSE c

\* TcpClient::disconnect called by the owner
CliDisconnect ==
  /\ ~CliTerminated /\ cli.connected_
  /\ cli' = CallerDisconnect(cli)
  /\ cliConnLog' = Append(cliConnLog, FALSE)
  /\ s2c' = <<>>
  /\ netFault' = TRUE
  /\ UNCHANGED <<sess, clients_, c2s, cliSent, srvDelivered, cliDelivered, c2sWire,
                 s2cWire, srvViolation, cliViolation, connLog>>
  /\ UNCHANGED notNet

\* TcpClient::ClientImpl::send_message(message) on a connected client, message
\* being the client's next message, of `length` bytes. The synchronous write
\* either puts the whole frame on the stream and true is returned ("ok"), or
\* throws with nothing written ("throw") or with the header alone written
\* ("partial"): disconnect(), and false. What is written to a session that has
\* closed its socket is discarded.
CliSendMessage(length, outcome) ==
  /\ ~CliTerminated /\ NetSends < MaxSends
  /\ cli.connected_
  /\ LET message == Len(cliSent) + 1
         written == IF outcome = "ok" THEN <<Frame(message, length)>>
                    ELSE IF outcome = "partial"
                      THEN <<[Frame(message, length) EXCEPT !.complete = FALSE]>>
                      ELSE <<>>
         arriving == IF sess.sock = "closed" THEN <<>> ELSE written
     IN
       /\ c2s' = c2s \o arriving
       /\ c2sWire' = c2sWire \o arriving
       /\ IF outcome = "ok"
            THEN /\ cliSent' = Append(cliSent, [msg |-> message, len |-> length])
                 /\ UNCHANGED <<cli, s2c, cliConnLog, netFault>>
            ELSE /\ cli' = CallerDisconnect(cli)
                 /\ cliConnLog' = Append(cliConnLog, FALSE)
                 /\ s2c' = <<>>
                 /\ netFault' = TRUE
                 /\ UNCHANGED cliSent
  /\ UNCHANGED <<sess, clients_, srvDelivered, cliDelivered, s2cWire, srvViolation,
                 cliViolation, connLog>>
  /\ UNCHANGED notNet

\* TcpClient::ClientImpl::disconnect reached from a read handler, that is on the
\* I/O thread: connected_ is cleared and the socket closed, the I/O context is
\* stopped, and io_thread_->join() is then a thread joining itself, which throws
\* std::system_error (resource_deadlock_would_occur); nothing catches it, so
\* the process ends in std::terminate before connection_handler_(false).
IoThreadDisconnect(c) ==
  [c EXCEPT !.connected_ = FALSE, !.sock = "closed", !.io = "terminated",
            !.read = "none"]

\* the completion handler of TcpClient::ClientImpl::read_header
CliReadHeader ==
  /\ cli.io = "running" /\ cli.read = "header" /\ cli.sock = "open"
  /\ s2c # <<>>
  /\ LET body_length == DecodeLength(Head(s2c).hdr) IN
       /\ cliViolation' = IF Head(s2c).len = 0 \/ Head(s2c).len >= 1048576
                            THEN [delivered |-> Len(cliDelivered)] ELSE cliViolation
       /\ IF CliValidBodyLength(body_length)
            THEN /\ cli' = [cli EXCEPT !.read = "body", !.body_length = body_length]
                 /\ UNCHANGED s2c
            ELSE /\ cli' = IoThreadDisconnect(cli)
                 /\ s2c' = <<>>
  /\ UNCHANGED <<sess, clients_, c2s, cliSent, srvDelivered, cliDelivered, c2sWire,
                 s2cWire, srvViolation, connLog, cliConnLog, netFault>>
  /\ UNCHANGED notNet

\* TcpClient::ClientImpl::handle_read with no error: the body has arrived;
\* message_handler_(message), then read_header()
CliHandleRead ==
  /\ cli.io = "running" /\ cli.read = "body" /\ cli.sock = "open" /\ cli.connected_
  /\ s2c # <<>> /\ Head(s2c).complete
  /\ cliDelivered' = HandlerCall(cliDelivered, BodyRead(Head(s2c), cli.body_length))
  /\ cli' = [cli EXCEPT !.read = "header"]
  /\ s2c' = Tail(s2c)
  /\ UNCHANGED <<sess, clients_, c2s, cliSent, srvDelivered, c2sWire, s2cWire,
                 srvViolation, cliViolation, connLog, cliConnLog, netFault>>
  /\ UNCHANGED notNet

\* a read of the client ends with an error (the peer closed, the connection
\* broke): read_header's handler or handle_read calls disconnect()
CliReadError ==
  /\ cli.io = "running" /\ cli.read # "none"
  /\ cli' = IoThreadDisconnect(cli)
  /\ s2c' = <<>>
  /\ netFault' = TRUE
  /\ UNCHANGED <<sess, clients_, c2s, cliSent, srvDelivered, cliDelivered, c2sWire,
                 s2cWire, srvViolation, cliViolation, connLog, cliConnLog>>
  /\ UNCHANGED notNet

\* TcpServer::handle_accept without error, for the client's connection: the id
\* is drawn, the session entered in clients_, connection_handler_ called and
\* the session started (connected_ = true; read_header())
SrvHandleAccept(client_id) ==
  /\ ~sess.accepted /\ cli.connect = "established"
  /\ sess' = [sess EXCEPT !.accepted = TRUE, !.client_id_ = client_id,
                          !.connected_ = TRUE, !.sock = "open", !.read = "header"]
  /\ clients_' = MapAssign(clients_, client_id, "session")
  /\ connLog' = Append(connLog, client_id)
  /\ UNCHANGED <<cli, c2s, s2c, cliSent, srvDelivered, cliDelivered, c2sWire,
                 s2cWire, srvViolation, cliViolation, cliConnLog, netFault>>
  /\ UNCHANGED notNet

\* TcpServer::send_message(client_id, message) and ClientSession::send_message
\* for a known id and a connected session, message being the server's next
\* message, of `length` bytes: async_write of the frame. The write completes
\* inside the call ("ok"), fails ("error", with handle_write to follow), or
\* completes after the call has returned ("deferred"). The buffers handed to
\* async_write refer to the local network_length and to the caller's string,
\* so a deferred write reads objects whose lifetime has ended: the receiver
\* then parses a frame with any declared length and a body of unknown content.
\* What is written to a client that has closed its socket is discarded.
SrvSendMessage(client_id, length, outcome) ==
  /\ NetSends < MaxSends
  /\ client_id \in DOMAIN clients_ /\ sess.connected_
  /\ IF outcome = "error"
       THEN /\ sess' = [sess EXCEPT !.write = "failed"]
            /\ UNCHANGED <<s2c, s2cWire>>
       ELSE \E declared \in (IF outcome = "ok" THEN {length} ELSE Lengths) :
              LET message == Len(s2cWire) + 1
                  written == IF outcome = "ok" THEN Frame(message, length)
                             ELSE Frame("garbled", declared)
                  arriving == IF cli.sock # "open" THEN <<>> ELSE <<written>>
              IN /\ s2c' = s2c \o arriving
                 /\ s2cWire' = s2cWire \o arriving
                 /\ UNCHANGED sess
  /\ UNCHANGED <<cli, clients_, c2s, c2sWire, cliSent, srvDelivered, cliDelivered,
                 srvViolation, cliViolation, connLog, cliConnLog, netFault>>
  /\ UNCHANGED notNet

\* ClientSession::handle_write with an error: close()
SessHandleWrite ==
  /\ sess.write = "failed"
  /\ sess' = [SessClose(sess) EXCEPT !.write = "none"]
  /\ c2s' = <<>>
  /\ netFault' = TRUE
  /\ UNCHANGED <<cli, clients_, s2c, cliSent, srvDelivered, cliDelivered, c2sWire,
                 s2cWire, srvViolation, cliViolation, connLog, cliConnLog>>
  /\ UNCHANGED notNet

\* the completion handler of ClientSession::read_header
SessReadHeader ==
  /\ sess.read = "header" /\ sess.sock = "open" /\ c2s # <<>>
  /\ LET body_length == DecodeLength(Head(c2s).hdr) IN
       /\ srvViolation' = IF Head(c2s).len = 0 \/ Head(c2s).len >= 1048576
                            THEN [delivered |-> Len(srvDelivered)] ELSE srvViolation
       /\ IF SessValidBodyLength(body_length)
            THEN /\ sess' = [sess EXCEPT !.read = "body", !.body_length = body_length]
                 /\ UNCHANGED c2s
            ELSE /\ sess' = [SessClose(sess) EXCEPT !.read = "none"]
                 /\ c2s' = <<>>
  /\ UNCHANGED <<cli, clients_, s2c, cliSent, srvDelivered, cliDelivered, c2sWire,
                 s2cWire, cliViolation, connLog, cliConnLog, netFault>>
  /\ UNCHANGED notNet

\* ClientSession::handle_read with no error and connected_: the body has
\* arrived; message_handler_(client_id_, message), then read_header()
SessHandleRead ==
  /\ sess.read = "body" /\ sess.sock = "open" /\ sess.connected_
  /\ c2s # <<>> /\ Head(c2s).complete
  /\ srvDelivered' =
       HandlerCall(srvDelivered,
                   [client_id |-> sess.client_id_,
                    msg |-> BodyRead(Head(c2s), sess.body_length).msg,
                    len |-> BodyRead(Head(c2s), sess.body_length).len])
  /\ sess' = [sess EXCEPT !.read = "header"]
  /\ c2s' = Tail(c2s)
  /\ UNCHANGED <<cli, clients_, s2c, cliSent, cliDelivered, c2sWire, s2cWire,
                 srvViolation, cliViolation, connLog, cliConnLog, netFault>>
  /\ UNCHANGED notNet

\* a read of the session ends with an error (the peer closed, the connection
\* broke, or the session's own close aborted it): close(), and no further read
SessReadError ==
  /\ sess.read # "none"
  /\ sess' = [SessClose(sess) EXCEPT !.read = "none"]
  /\ c2s' = <<>>
  /\ netFault' = TRUE
  /\ UNCHANGED <<cli, clients_, s2c, cliSent, srvDelivered, cliDelivered, c2sWire,
                 s2cWire, srvViolation, cliViolation, connLog, cliConnLog>>
  /\ UNCHANGED notNet

\* TcpServer::get_connected_clients: the keys of clients_, in the map's order
GetConnectedClients == KeysInSomeOrder(clients_)

\* TcpServer::is_client_connected: client_id is a key of clients_
IsClientConnected(client_id) == client_id \in DOMAIN clients_

\* TcpServer::connected_clients: clients_.size()
ConnectedClients == Cardinality(DOMAIN clients_)

\* a TcpClient constructed, and a TcpServer started and accepting
InitFraming == IdleNet /\ IdleObs /\ IdleQueue /\ IdleRR /\ IdlePrio /\ IdleBcast /\ IdleRegistry
  /\ IdleController
  /\ IdleUpdate
  /\ IdleSessOut
  /\ IdleObsNotify
  /\ IdlePrioRun
  /\ IdleCommand

NextFraming ==
  \/ CliConnect
  \/ \E error \in BOOLEAN : CliHandleConnect(error)
  \/ CliDisconnect
  \/ \E length \in Lengths, outcome \in {"ok", "throw", "partial"} :
       CliSendMessage(length, outcome)
  \/ CliReadHeader
  \/ CliHandleRead
  \/ CliReadError
  \/ \E client_id \in ClientIds : SrvHandleAccept(client_id)
  \/ \E client_id \in ClientIds, length \in Lengths,
          outcome \in {"ok", "error", "deferred"} :
       SrvSendMessage(client_id, length, outcome)
  \/ SessHandleWrite
  \/ SessReadHeader
  \/ SessHandleRead
  \/ SessReadError

SpecFraming == InitFraming /\ [][NextFraming]_vars

\* a message length a receiver accepts
AcceptedLength(length) == 0 < length /\ length < BodyLimit

\* the session has not closed: it can still call the message handler
SessionMayDeliver == ~sess.accepted \/ sess.connected_

\* the i-th message the client sent is the i-th call of the server's handler,
\* with the bytes sent and the connection's client id
DeliveredToServer(i) ==
  /\ i <= Len(srvDelivered)
  /\ srvDelivered[i] = [client_id |-> sess.client_id_, msg |-> cliSent[i].msg,
                        len |-> cliSent[i].len]

\* C3, as stated: on a connection without socket failures or a disconnect by
\* the owner, every message for which TcpClient::send_message returned true,
\* whatever its length L, is delivered to the server's message handler as
\* exactly L bytes of the original content with the connection's client id, or
\* is still to be delivered by the open session.
C3_EveryLengthDelivered ==
  ~netFault =>
    \A i \in 1..Len(cliSent) :
      DeliveredToServer(i) \/ (i > Len(srvDelivered) /\ SessionMayDeliver)

\* C3, amended: every call of the server's message handler carries the next
\* message the client sent, as exactly its L bytes with 0 < L < 1,048,576 and
\* with the connection's client id; and on a connection without socket
\* failures or a disconnect by the owner, a message sent with true is
\* delivered so, or still to be delivered by the open session, provided its
\* length and the lengths of the messages sent before it on the connection are
\* above 0 and below 1,048,576. (A message of length 0 or of 1,048,576 and
\* more is sent with true, but the session closes on its header.)
C3_AcceptedLengthsDelivered ==
  /\ \A i \in 1..Len(srvDelivered) :
       /\ i <= Len(cliSent)
       /\ DeliveredToServer(i)
       /\ AcceptedLength(srvDelivered[i].len)
  /\ ~netFault =>
       \A i \in 1..Len(cliSent) :
         (\A j \in 1..i : AcceptedLength(cliSent[j].len)) =>
           DeliveredToServer(i) \/ (i > Len(srvDelivered) /\ SessionMayDeliver)

\* two messages, of 1,048,575 bytes and of one byte, have reached the handler
C3_Witness ==
  /\ ~netFault
  /\ Len(cliSent) = 2 /\ cliSent[1].len = BodyLimit - 1 /\ cliSent[2].len = 1
  /\ Len(srvDelivered) = 2
  /\ srvDelivered[1] = [client_id |-> "client_9999", msg |-> 1, len |-> BodyLimit - 1]
  /\ srvDelivered[2] = [client_id |-> "client_9999", msg |-> 2, len |-> 1]

\* C4: once a session or the client has read a header declaring a body of 0
\* or of 1,048,576 and more bytes, its connection is closed (connected_ false,
\* socket closed, no read outstanding) and its message handler has been called
\* as often as before that header: neither for that frame nor for a later one.
C4_SizeViolationCloses ==
  /\ srvViolation # None =>
       /\ ~sess.connected_ /\ sess.sock = "closed" /\ sess.read = "none"
       /\ Len(srvDelivered) = srvViolation.delivered
  /\ cliViolation # None =>
       /\ ~cli.connected_ /\ cli.sock = "closed" /\ cli.read = "none"
       /\ Len(cliDelivered) = cliViolation.delivered

\* the session has read a header declaring 1,048,576 with a one-byte frame
\* behind it, and the client a header declaring 0
C4_Witness ==
  /\ srvViolation # None /\ cliViolation # None
  /\ Len(c2sWire) = 2 /\ c2sWire[1].len = BodyLimit /\ c2sWire[2].len = 1
  /\ srvDelivered = <<>>
  /\ Len(s2cWire) = 1 /\ s2cWire[1].len = 0
  /\ cliDelivered = <<>>

\* C5: on either side the calls of the message handler are, in order, the
\* first frames put on the connection's stream, one call per frame; and while
\* the connection is open every frame taken from the stream has been
\* delivered, so the frames on the wire are those delivered followed by those
\* not yet read.
C5_DeliveredInOrderReceived ==
  /\ \A i \in 1..Len(srvDelivered) :
       /\ i <= Len(c2sWire)
       /\ srvDelivered[i].msg = c2sWire[i].msg /\ srvDelivered[i].len = c2sWire[i].len
  /\ \A i \in 1..Len(cliDelivered) :
       /\ i <= Len(s2cWire)
       /\ cliDelivered[i] = [msg |-> s2cWire[i].msg, len |-> s2cWire[i].len]
  /\ sess.connected_ => Len(srvDelivered) + Len(c2s) = Len(c2sWire)
  /\ cli.connected_ => Len(cliDelivered) + Len(s2c) = Len(s2cWire)

\* with both sides connected, two frames have been delivered to the server in
\* the order sent and one to the client
C5_Witness ==
  /\ sess.connected_ /\ cli.connected_
  /\ Len(srvDelivered) = 2 /\ srvDelivered[1].msg = 1 /\ srvDelivered[2].msg = 2
  /\ Len(cliDelivered) = 1 /\ cliDelivered[1].msg = 1

\* C29: when the client's read loop hits a read error or a size violation on
\* the I/O thread, the disconnect it triggers runs to completion: is_connected()
\* becomes false, the connection handler is called with false, and the I/O
\* thread ends without the process being terminated (the disconnect does not
\* wait for the thread it runs on).
C29_ReadLoopDisconnectCompletes ==
  [][(/\ cli.connected_
      /\ \/ CliReadError
         \/ CliReadHeader /\ ~CliValidBodyLength(DecodeLength(Head(s2c).hdr)))
       => /\ ~cli'.connected_
          /\ cliConnLog' = Append(cliConnLog, FALSE)
          /\ cli'.io \in {"returned", "joined"}
          /\ ~CliTerminated']_vars

\* C15: the server reports a client as connected only while its session is
\* open: once the session has closed itself, is_client_connected(id) is false,
\* id is not in get_connected_clients() and connected_clients() does not count it.
C15_ConnectedOnlyWhileSessionOpen ==
  (sess.accepted /\ ~sess.connected_) =>
    /\ ~IsClientConnected(sess.client_id_)
    /\ sess.client_id_ \notin Range(GetConnectedClients)
    /\ ConnectedClients = 0

\* ------------------------------------------------- TcpServer: start and stop
\* The server's life cycle with every connection it accepts: the caller's
\* thread (start, stop, send_message, disconnect_client), the I/O thread
\* (io_context_.run() with the accept handlers) and the clients that connect.
\* start, stop and handle_accept are taken in the steps between which the
\* other thread can run. Reads and writes of a session are the subject of the
\* specification of the framed transport above; here a session is its entry
\* in clients_, its connected_ flag and its socket.

\* a session that reads from its construction on
NewSessionReading(client_id) ==
  [client_id_ |-> client_id, connected_ |-> TRUE, sock |-> "open",
   written |-> 0, freed |-> FALSE, read |-> "pending", writeOps |-> 0,
   handled |-> <<>>]

\* std::make_shared<ClientSession>, after set_client_id(client_id); handled
\* is history, the ids message_handler_ was called with from this session
NewSession(client_id) ==
  [client_id_ |-> client_id, connected_ |-> FALSE, sock |-> "open",
   written |-> 0, freed |-> FALSE, read |-> "none", writeOps |-> 0,
   handled |-> <<>>]

\* ClientSession::start: connected_ = true; read_header() issues an async_read
\* whose handler holds the session as a plain `this`
SessStart(s) == [s EXCEPT !.connected_ = TRUE, !.read = "pending"]

\* socket_.close(), and the destructor of a socket, cancel the outstanding
\* read: its handler is queued to run with operation_aborted
CancelRead(s) ==
  IF s.sock = "closed" /\ s.read = "pending" THEN [s EXCEPT !.read = "aborted"] ELSE s

\* the sessions some shared_ptr refers to: those of the table and the one the
\* running handle_accept holds
SessionOwned(table, held, i) == i \in Range(table) \/ i = held

\* a session no shared_ptr refers to any more is destroyed, and its socket
\* closed by the socket's destructor
DestroyUnowned(sessions, table, held) ==
  [i \in DOMAIN sessions |->
     CancelRead(IF SessionOwned(table, held, i) THEN sessions[i]
                ELSE [sessions[i] EXCEPT !.sock = "closed", !.freed = TRUE])]

\* stop()'s loop over clients_ : pair.second->close()
CloseAll(sessions, table) ==
  [i \in DOMAIN sessions |->
     IF i \in Range(table) THEN SessClose(sessions[i]) ELSE sessions[i]]

\* the io_context has something to wait for: an async_accept, or the read of
\* a started session whose socket is open
OutstandingWork ==
  \/ acceptOps > 0
  \/ \E i \in DOMAIN srvSess : srvSess[i].connected_ /\ srvSess[i].sock = "open"

\* frames written by the server so far, over all sessions
RECURSIVE SumWritten(_)
SumWritten(sessions) ==
  IF sessions = <<>> THEN 0
  ELSE Head(sessions).written + SumWritten(Tail(sessions))

SrvWrites == SumWritten(srvSess)

\* TcpServer::is_running
IsRunning == running_

\* start() that does not look at running_
StartBodyUnguarded ==
  /\ srvStarts < MaxStarts
  /\ running_' = TRUE
  /\ io_thread_' = "started"
  /\ srvPc' = "start_accept"
  /\ srvStarts' = srvStarts + 1
  /\ srvLast' = [call |-> "start", noop |-> FALSE]

\* start(): running_.exchange(true), and return if it was set; otherwise the
\* I/O thread is created (it has yet to enter io_context_.run())
StartBody ==
  IF running_
    THEN /\ srvLast' = [call |-> "start", noop |-> TRUE]
         /\ UNCHANGED <<running_, io_thread_, srvPc, srvStarts>>
    ELSE /\ srvStarts < MaxStarts
         /\ running_' = TRUE
         /\ io_thread_' = "started"
         /\ srvPc' = "start_accept"
         /\ srvStarts' = srvStarts + 1
         /\ srvLast' = [call |-> "start", noop |-> FALSE]

\* TcpServer::start, up to the creation of the I/O thread
TcpServerStart ==
  /\ srvPc = "idle"
  /\ StartBody
  /\ UNCHANGED <<ioStopped, acceptOps, backlog, srvSess, ioHeld, clients_, connLog>>
  /\ UNCHANGED notSrv

\* TcpServer::start, its last statement: accept_connections() issues an
\* async_accept; start returns
TcpServerStartAccept ==
  /\ srvPc = "start_accept"
  /\ acceptOps' = acceptOps + 1
  /\ srvPc' = "idle"
  /\ UNCHANGED <<running_, io_thread_, ioStopped, backlog, srvSess, ioHeld, srvStarts,
                 srvLast, clients_, connLog>>
  /\ UNCHANGED notSrv

\* the I/O thread enters io_context_.run(): run() returns at once if the
\* context is stopped or has no work (and the context is stopped by that),
\* otherwise it serves the handlers
IoThreadRun ==
  /\ io_thread_ = "started"
  /\ IF ioStopped \/ ~OutstandingWork
       THEN io_thread_' = "returned" /\ ioStopped' = TRUE
       ELSE io_thread_' = "run" /\ UNCHANGED ioStopped
  /\ UNCHANGED <<running_, acceptOps, backlog, srvSess, srvPc, ioHeld, srvStarts,
                 srvLast, clients_, connLog>>
  /\ UNCHANGED notSrv

\* io_context_.run() returns between two handlers, the context being stopped
\* or out of work: the I/O thread ends
IoThreadReturn ==
  /\ io_thread_ = "run" /\ ioHeld = 0
  /\ ioStopped \/ ~OutstandingWork
  /\ io_thread_' = "returned" /\ ioStopped' = TRUE
  /\ UNCHANGED <<running_, acceptOps, backlog, srvSess, srvPc, ioHeld, srvStarts,
                 srvLast, clients_, connLog>>
  /\ UNCHANGED notSrv

\* a client connects to the server's port: the connection waits to be accepted
ClientConnects ==
  /\ running_ /\ srvPc = "idle"
  /\ Len(srvSess) + backlog < MaxConns
  /\ backlog' = backlog + 1
  /\ UNCHANGED <<running_, io_thread_, ioStopped, acceptOps, srvSess, srvPc, ioHeld,
                 srvStarts, srvLast, clients_, connLog>>
  /\ UNCHANGED notSrv

\* TcpServer::handle_accept on the I/O thread, an async_accept having taken a
\* waiting connection, up to the end of the block that holds clients_mutex_:
\* the id is drawn and clients_[client_id] = session. (The acceptor is never
\* closed, so no accept ends with an error.) A session that was stored under
\* the same id loses its owner.
IoHandleAccept(client_id) ==
  /\ io_thread_ = "run" /\ ~ioStopped /\ ioHeld = 0
  /\ acceptOps > 0 /\ backlog > 0
  /\ LET n == Len(srvSess) + 1 IN
       /\ clients_' = MapAssign(clients_, client_id, n)
       /\ srvSess' = DestroyUnowned(Append(srvSess, NewSession(client_id)), clients_', n)
       /\ ioHeld' = n
  /\ acceptOps' = acceptOps - 1
  /\ backlog' = backlog - 1
  /\ UNCHANGED <<running_, io_thread_, ioStopped, srvPc, srvStarts, srvLast, connLog>>
  /\ UNCHANGED notSrv

\* the rest of handle_accept: connection_handler_(client_id), session->start(),
\* and accept_connections() if running_; with the handler's return its
\* shared_ptr to the session is gone
IoHandleAcceptRest ==
  /\ ioHeld # 0
  /\ connLog' = Append(connLog, srvSess[ioHeld].client_id_)
  /\ srvSess' = DestroyUnowned([srvSess EXCEPT ![ioHeld] = SessStart(@)], clients_, 0)
  /\ acceptOps' = IF running_ THEN acceptOps + 1 ELSE acceptOps
  /\ ioHeld' = 0
  /\ UNCHANGED <<running_, io_thread_, ioStopped, backlog, srvPc, srvStarts, srvLast,
                 clients_>>
  /\ UNCHANGED notSrv

\* TcpServer::stop: running_.exchange(false), and return if it was clear
TcpServerStop ==
  /\ srvPc = "idle"
  /\ IF ~running_
       THEN /\ srvLast' = [call |-> "stop", noop |-> TRUE]
            /\ UNCHANGED <<running_, srvPc>>
       ELSE /\ running_' = FALSE
            /\ srvPc' = "stop_close"
            /\ srvLast' = [call |-> "stop", noop |-> FALSE]
  /\ UNCHANGED <<io_thread_, ioStopped, acceptOps, backlog, srvSess, ioHeld, srvStarts,
                 clients_, connLog>>
  /\ UNCHANGED notSrv

\* stop(), the block that holds clients_mutex_: close() on every session of
\* the table, and clients_.clear()
TcpServerStopCloseAll ==
  /\ srvPc = "stop_close"
  /\ clients_' = <<>>
  /\ srvSess' = DestroyUnowned(CloseAll(srvSess, clients_), clients_', ioHeld)
  /\ srvPc' = "stop_io"
  /\ UNCHANGED <<running_, io_thread_, ioStopped, acceptOps, backlog, ioHeld, srvStarts,
                 srvLast, connLog>>
  /\ UNCHANGED notSrv

\* stop(): io_context_.stop()
TcpServerStopIoContext ==
  /\ srvPc = "stop_io"
  /\ ioStopped' = TRUE
  /\ srvPc' = "stop_join"
  /\ UNCHANGED <<running_, io_thread_, acceptOps, backlog, srvSess, ioHeld, srvStarts,
                 srvLast, clients_, connLog>>
  /\ UNCHANGED notSrv

\* stop(): io_thread_->join() returns once the I/O thread has ended; stop returns
TcpServerStopJoin ==
  /\ srvPc = "stop_join"
  /\ io_thread_ = "returned"
  /\ io_thread_' = "joined"
  /\ srvPc' = "idle"
  /\ UNCHANGED <<running_, ioStopped, acceptOps, backlog, srvSess, ioHeld, srvStarts,
                 srvLast, clients_, connLog>>
  /\ UNCHANGED notSrv

\* what a lookup in clients_ gives for an id the table does not hold
NoSession == 0

\* a lookup that gives some session of the table for an id it does not hold
SessionOfOrAny(client_id) ==
  IF client_id \in DOMAIN clients_ THEN clients_[client_id]
  ELSE IF DOMAIN clients_ # {} THEN clients_[CHOOSE k \in DOMAIN clients_ : TRUE]
  ELSE NoSession

\* clients_.find(client_id): the session stored under the id, if any
SessionOf(client_id) ==
  IF client_id \in DOMAIN clients_ THEN clients_[client_id] ELSE NoSession

\* TcpServer::send_message(client_id, message): for an id of the table,
\* ClientSession::send_message, which writes the frame if connected_; the
\* async_write's handler holds the session as a plain `this`
TcpServerSendMessage(client_id) ==
  /\ srvPc = "idle"
  /\ LET i == SessionOf(client_id) IN
       IF i # NoSession /\ srvSess[i].connected_
         THEN /\ SrvWrites < MaxSrvWrites
              /\ srvSess' = [srvSess EXCEPT ![i].written = @ + 1,
                                            ![i].writeOps = @ + 1]
         ELSE UNCHANGED srvSess
  /\ srvLast' = [call |-> "send_message", noop |-> client_id \notin DOMAIN clients_]
  /\ UNCHANGED <<running_, io_thread_, ioStopped, acceptOps, backlog, srvPc, ioHeld,
                 srvStarts, clients_, connLog>>
  /\ UNCHANGED notSrv

\* TcpServer::disconnect_client(client_id): for an id of the table, close()
\* on its session and clients_.erase(it)
TcpServerDisconnectClient(client_id) ==
  /\ srvPc = "idle"
  /\ LET i == SessionOf(client_id) IN
       IF i # NoSession
         THEN /\ clients_' = MapErase(clients_, client_id)
              /\ srvSess' = DestroyUnowned([srvSess EXCEPT ![i] = SessClose(@)],
                                           clients_', ioHeld)
         ELSE UNCHANGED <<clients_, srvSess>>
  /\ srvLast' = [call |-> "disconnect_client", noop |-> client_id \notin DOMAIN clients_]
  /\ UNCHANGED <<running_, io_thread_, ioStopped, acceptOps, backlog, srvPc, ioHeld,
                 srvStarts, connLog>>
  /\ UNCHANGED notSrv

\* a TcpServer constructed: the acceptor listens, nothing runs
InitServer ==
  IdleNet /\ IdleObs /\ IdleQueue /\ IdleRR /\ IdlePrio /\ IdleBcast /\ IdleRegistry
  /\ IdleController
  /\ IdleUpdate
  /\ IdleSessOut
  /\ IdleObsNotify
  /\ IdlePrioRun
  /\ IdleCommand

NextServer ==
  \/ TcpServerStart
  \/ TcpServerStartAccept
  \/ IoThreadRun
  \/ IoThreadReturn
  \/ ClientConnects
  \/ \E client_id \in ClientIds : IoHandleAccept(client_id)
  \/ IoHandleAcceptRest
  \/ TcpServerStop
  \/ TcpServerStopCloseAll
  \/ TcpServerStopIoContext
  \/ TcpServerStopJoin
  \/ \E client_id \in ClientIds : TcpServerSendMessage(client_id)
  \/ \E client_id \in ClientIds : TcpServerDisconnectClient(client_id)

SpecServer == InitServer /\ [][NextServer]_vars

\* the threads are scheduled: the I/O thread runs what it can run, and a call
\* of start or stop that has begun goes on
FairServer ==
  /\ WF_vars(IoThreadRun)
  /\ WF_vars(IoThreadReturn)
  /\ WF_vars(\E client_id \in ClientIds : IoHandleAccept(client_id))
  /\ WF_vars(IoHandleAcceptRest)
  /\ WF_vars(TcpServerStartAccept)
  /\ WF_vars(TcpServerStopCloseAll)
  /\ WF_vars(TcpServerStopIoContext)
  /\ WF_vars(TcpServerStopJoin)

SpecServerLive == SpecServer /\ FairServer

\* ------------------------------------------------ TcpServer life cycle: claims

\* what start, stop and the handlers act on, apart from the record of calls
srvState == <<running_, io_thread_, ioStopped, acceptOps, backlog, srvSess, srvPc,
              ioHeld, clients_, connLog>>

\* C16: once start() has returned on a server that was not running, every
\* client that connects while is_running() is true is eventually accepted:
\* the n-th connection gets its session and is reported to the connection
\* handler, unless the server is stopped first.
C16_ConnectingClientsAccepted ==
  \A n \in 1..MaxConns :
    (IsRunning /\ Len(srvSess) + backlog >= n)
      ~> (~IsRunning \/ (Len(srvSess) >= n /\ Len(connLog) >= n))

\* C17: after stop() has returned the session table is empty, every session
\* accepted so far is closed, the I/O thread has ended and been joined, and no
\* handler is running or can run.
C17_AfterStopNothingLeft ==
  (~IsRunning /\ srvPc = "idle") =>
    /\ ConnectedClients = 0
    /\ \A i \in DOMAIN srvSess : srvSess[i].sock = "closed"
    /\ io_thread_ \in {"none", "joined"}
    /\ ioHeld = 0

\* C18: start() on a running server and stop() on a stopped server change
\* nothing; start() on a stopped server makes is_running() true, stop() on a
\* running server makes it false, and nothing else changes is_running().
C18_StartStopIdempotent ==
  [][/\ (TcpServerStart /\ IsRunning) => UNCHANGED srvState
     /\ (TcpServerStop /\ ~IsRunning) => UNCHANGED srvState
     /\ (TcpServerStart /\ ~IsRunning) => running_'
     /\ (TcpServerStop /\ IsRunning) => ~running_'
     /\ (running_' # running_) => (TcpServerStart \/ TcpServerStop)]_vars

\* start() was called on a running server that has accepted a client and
\* waits for the next
C18_Witness ==
  /\ srvLast = [call |-> "start", noop |-> TRUE]
  /\ IsRunning /\ io_thread_ = "run" /\ srvStarts = 1
  /\ acceptOps = 1 /\ ConnectedClients = 1

\* C19: send_message and disconnect_client for an id that is not in the
\* session table write nothing to any client and leave the table as it is.
C19_UnknownClientIdIsNoOp ==
  [][\A client_id \in ClientIds \ DOMAIN clients_ :
       (TcpServerSendMessage(client_id) \/ TcpServerDisconnectClient(client_id))
         => UNCHANGED <<clients_, srvSess>>]_vars

\* send_message was called with an id the table does not hold while another
\* client is connected: nothing has been written
C19_Witness ==
  /\ srvLast = [call |-> "send_message", noop |-> TRUE]
  /\ DOMAIN clients_ = {"client_1000"}
  /\ srvSess[clients_["client_1000"]].connected_
  /\ srvSess[clients_["client_1000"]].sock = "open"
  /\ SrvWrites = 0

\* C37: at every moment at most one accept is outstanding, across start, stop,
\* start after stop and the completions of accepts; and the accept handler
\* issues the next accept after a completion exactly when is_running() holds.
C37_AtMostOneAcceptOutstanding ==
  [][/\ acceptOps' <= 1
     /\ (ioHeld # 0 /\ ioHeld' = 0) =>
          acceptOps' = (IF IsRunning THEN acceptOps + 1 ELSE acceptOps)]_vars

\* ------------------------------------ ClientSession: the completion handlers
\* The handlers of a session's async_read and async_write capture `this`, not
\* a shared_ptr: the session lives as long as clients_ (or a running
\* handle_accept) refers to it, the handlers as long as the io_context holds
\* them. They run on the I/O thread, between two other handlers, while the
\* context is not stopped.

\* the I/O thread can take the next handler
IoThreadFree == io_thread_ = "run" /\ ~ioStopped /\ ioHeld = 0

\* what running a member function of a destroyed session can do: the freed
\* memory is read and written unnoticed, or the process is brought down
DestroyedOutcomes == {"unnoticed", "crash"}

\* the outcomes of a handler of session i
HandlerOutcomes(i) == IF srvSess[i].freed THEN DestroyedOutcomes ELSE {"defined"}

\* the process has ended
ProcessEnds ==
  /\ io_thread_' = "terminated"
  /\ srvPc' = "terminated"
  /\ UNCHANGED <<running_, ioStopped, acceptOps, backlog, srvSess, ioHeld, srvStarts,
                 srvLast, clients_, connLog>>

\* the lambda of ClientSession::read_header (or handle_read) run with an error
\* because the peer closed or the connection broke: close()
SessionReadFails(i) ==
  /\ IoThreadFree
  /\ i \in DOMAIN srvSess /\ srvSess[i].read = "pending"
  /\ srvSess' = [srvSess EXCEPT ![i] = [SessClose(@) EXCEPT !.read = "none"]]
  /\ UNCHANGED <<running_, io_thread_, ioStopped, acceptOps, backlog, srvPc, ioHeld,
                 srvStarts, srvLast, clients_, connLog>>
  /\ UNCHANGED notSrv

\* the lambda of ClientSession::read_header (or handle_read) run with
\* operation_aborted, the read having been cancelled: this->close(), which
\* finds connected_ clear if the session was closed, and which acts on a
\* destroyed object if the session is gone
SessionReadAborted(i, outcome) ==
  /\ IoThreadFree
  /\ i \in DOMAIN srvSess /\ srvSess[i].read = "aborted"
  /\ outcome \in HandlerOutcomes(i)
  /\ IF outcome = "crash"
       THEN ProcessEnds
       ELSE /\ srvSess' = [srvSess EXCEPT ![i].read = "none"]
            /\ UNCHANGED <<running_, io_thread_, ioStopped, acceptOps, backlog, srvPc,
                           ioHeld, srvStarts, srvLast, clients_, connLog>>
  /\ UNCHANGED notSrv

\* ClientSession::handle_write, the handler of an async_write: close() if the
\* write ended with an error, which it does on a closed socket
SessionHandleWrite(i, outcome) ==
  /\ IoThreadFree
  /\ i \in DOMAIN srvSess /\ srvSess[i].writeOps > 0
  /\ outcome \in HandlerOutcomes(i)
  /\ IF outcome = "crash"
       THEN ProcessEnds
       ELSE /\ srvSess' = [srvSess EXCEPT ![i].writeOps = @ - 1]
            /\ UNCHANGED <<running_, io_thread_, ioStopped, acceptOps, backlog, srvPc,
                           ioHeld, srvStarts, srvLast, clients_, connLog>>
  /\ UNCHANGED notSrv

NextSessions ==
  \/ TcpServerStart
  \/ TcpServerStartAccept
  \/ IoThreadRun
  \/ IoThreadReturn
  \/ ClientConnects
  \/ \E client_id \in ClientIds : IoHandleAccept(client_id)
  \/ IoHandleAcceptRest
  \/ TcpServerStop
  \/ TcpServerStopCloseAll
  \/ TcpServerStopIoContext
  \/ TcpServerStopJoin
  \/ \E client_id \in ClientIds : TcpServerSendMessage(client_id)
  \/ \E client_id \in ClientIds : TcpServerDisconnectClient(client_id)
  \/ \E i \in 1..MaxConns : SessionReadFails(i)
  \/ \E i \in 1..MaxConns, outcome \in DestroyedOutcomes \cup {"defined"} :
       SessionReadAborted(i, outcome)
  \/ \E i \in 1..MaxConns, outcome \in DestroyedOutcomes \cup {"defined"} :
       SessionHandleWrite(i, outcome)

SpecSessions == InitServer /\ [][NextSessions]_vars

\* -------------------------------------- ClientSession: the messages it reads

\* messages handed to message_handler_ so far, over all sessions
RECURSIVE SumHandled(_)
SumHandled(sessions) ==
  IF sessions = <<>> THEN 0
  ELSE Len(Head(sessions).handled) + SumHandled(Tail(sessions))

\* the peer of session i has sent a frame and the session's reads of the
\* header and of the body have completed: the lambda of read_body is queued
\* with no error (closing or destroying the socket no longer cancels it)
PeerSends(i) ==
  /\ i \in DOMAIN srvSess /\ srvSess[i].read = "pending"
  /\ srvSess[i].sock = "open"
  /\ io_thread_ # "terminated"
  /\ SumHandled(srvSess) < MaxSrvReads
  /\ srvSess' = [srvSess EXCEPT ![i].read = "ready"]
  /\ UNCHANGED <<running_, io_thread_, ioStopped, acceptOps, backlog, srvPc, ioHeld,
                 srvStarts, srvLast, clients_, connLog>>
  /\ UNCHANGED notSrv

\* ClientSession::handle_read run with no error: if connected_,
\* message_handler_(client_id_, message) and read_header(), whose read fails
\* at once on a closed socket; otherwise close(). On a destroyed session the
\* members are read from freed memory
SessionHandleRead(i, outcome) ==
  /\ IoThreadFree
  /\ i \in DOMAIN srvSess /\ srvSess[i].read = "ready"
  /\ outcome \in HandlerOutcomes(i)
  /\ IF outcome = "crash"
       THEN ProcessEnds
       ELSE /\ srvSess' =
                 [srvSess EXCEPT ![i] =
                    IF @.connected_
                      THEN [@ EXCEPT !.handled = Append(@, srvSess[i].client_id_),
                                     !.read = IF srvSess[i].sock = "open"
                                                THEN "pending" ELSE "aborted"]
                      ELSE [@ EXCEPT !.read = "none"]]
            /\ UNCHANGED <<running_, io_thread_, ioStopped, acceptOps, backlog, srvPc,
                           ioHeld, srvStarts, srvLast, clients_, connLog>>
  /\ UNCHANGED notSrv

NextSessionReads ==
  \/ TcpServerStart
  \/ TcpServerStartAccept
  \/ IoThreadRun
  \/ IoThreadReturn
  \/ ClientConnects
  \/ \E client_id \in ClientIds : IoHandleAccept(client_id)
  \/ IoHandleAcceptRest
  \/ TcpServerStop
  \/ TcpServerStopCloseAll
  \/ TcpServerStopIoContext
  \/ TcpServerStopJoin
  \/ \E client_id \in ClientIds : TcpServerDisconnectClient(client_id)
  \/ \E i \in 1..MaxConns : SessionReadFails(i)
  \/ \E i \in 1..MaxConns, outcome \in DestroyedOutcomes \cup {"defined"} :
       SessionReadAborted(i, outcome)
  \/ \E i \in 1..MaxConns : PeerSends(i)
  \/ \E i \in 1..MaxConns, outcome \in DestroyedOutcomes \cup {"defined"} :
       SessionHandleRead(i, outcome)

SpecSessionReads == InitServer /\ [][NextSessionReads]_vars

\* C36: for every accepted client the session is entered in clients_ before
\* connection_handler_ is called with its id, and connection_handler_ is
\* called before the session's read loop starts: when the handler is called
\* the session has been stored, is not connected, has no read outstanding and
\* has delivered nothing; a session that reads, is connected or has delivered
\* a message has had its id given to connection_handler_; so message_handler_
\* is never called with an id connection_handler_ has not been given.
C36_StoredThenAnnouncedThenRead ==
  [][/\ connLog' # connLog =>
          /\ ioHeld # 0 /\ ioHeld = Len(connLog) + 1
          /\ connLog' = Append(connLog, srvSess[ioHeld].client_id_)
          /\ ~srvSess[ioHeld].connected_ /\ srvSess[ioHeld].read = "none"
          /\ srvSess[ioHeld].handled = <<>>
     /\ \A i \in DOMAIN srvSess' :
          (srvSess'[i].read # "none" \/ srvSess'[i].connected_
             \/ srvSess'[i].handled # <<>>)
            => /\ i <= Len(connLog') /\ connLog'[i] = srvSess'[i].client_id_
     /\ \A i \in DOMAIN srvSess' : \A k \in DOMAIN srvSess'[i].handled :
          srvSess'[i].handled[k] \in Range(connLog')
     /\ (ioHeld = 0 /\ ioHeld' # 0) =>
          clients_'[srvSess'[ioHeld'].client_id_] = ioHeld']_vars

\* the second session accepted has handed a message to message_handler_
\* under its id, after connection_handler_ was called for both sessions
C36_Witness ==
  /\ Len(connLog) = 2 /\ Len(srvSess) = 2
  /\ srvSess[2].handled = <<srvSess[2].client_id_>>
  /\ connLog[2] = srvSess[2].client_id_

\* C30: no read or write completion handler of a session runs after the
\* session has been dropped from the session table and destroyed, whether by
\* disconnect_client, by stop, or by a newly accepted session stored under the
\* same client id.
C30_NoHandlerAfterSessionDestroyed ==
  [][\A i \in DOMAIN srvSess :
       (\E outcome \in HandlerOutcomes(i) :
          SessionReadAborted(i, outcome) \/ SessionHandleWrite(i, outcome))
         => ~srvSess[i].freed]_vars

\* ------------------------------------- ClientSession::send_message: the bytes
\* One connected session and the threads that send to it. send_message holds
\* send_mutex_ (and TcpServer::send_message clients_mutex_) while it builds the
\* buffers and calls async_write, which returns at once: what the socket does
\* not take in that call is written later from the I/O thread, one
\* async_write_some at a time, after the locks are released. A frame is
\* followed as one piece ("all") or as two ("first", then "rest"), the cut
\* being anywhere in its 4 + length bytes.

\* what async_write can put on the socket inside the call
WrittenAtOnce == {"all", "first", "none"}

\* what is left to write of a frame of which `now` was written
LeftAfter(now) ==
  IF now = "all" THEN "none" ELSE IF now = "first" THEN "rest" ELSE "all"

\* the stream with one more piece
WritePiece(stream, frame, by, part, intact) ==
  Append(stream, [frame |-> frame, by |-> by, part |-> part, intact |-> intact])

\* TcpServer::send_message and ClientSession::send_message called by thread t
\* on the connected session: the length is put in the local network_length,
\* the buffers refer to it and to the caller's string, async_write is started
\* and the call returns
SessionSendMessage(t, now) ==
  /\ sessOut.sends < MaxSessionSends
  /\ LET frame == sessOut.sends + 1 IN
       sessOut' = [sends |-> frame,
                   pending |-> Append(sessOut.pending, LeftAfter(now)),
                   stream |-> IF now = "none" THEN sessOut.stream
                              ELSE WritePiece(sessOut.stream, frame, t, now, TRUE)]
  /\ UNCHANGED notSessOut

\* the I/O thread goes on with the async_write of a frame: one async_write_some
\* of what is left, or of a part of it. The buffers are read now: the local
\* network_length is gone and the caller's string may be, so the bytes written
\* are those of the frame or whatever the memory holds by now
SessionWriteSome(frame, part, intact) ==
  /\ frame \in DOMAIN sessOut.pending
  /\ \/ sessOut.pending[frame] = "all" /\ part \in {"all", "first"}
     \/ sessOut.pending[frame] = "rest" /\ part = "rest"
  /\ sessOut' = [sessOut EXCEPT
                   !.pending[frame] = IF part = "first" THEN "rest" ELSE "none",
                   !.stream = WritePiece(@, frame, "io", part, intact)]
  /\ UNCHANGED notSessOut

InitSessionOut ==
  IdleSessOut /\ IdleObsNotify /\ IdlePrioRun /\ IdleNet /\ IdleObs /\ IdleQueue /\ IdleRR /\ IdlePrio /\ IdleBcast
  /\ IdleRegistry /\ IdleController /\ IdleUpdate /\ IdleCommand

NextSessionOut ==
  \/ \E t \in {"t1", "t2"}, now \in WrittenAtOnce : SessionSendMessage(t, now)
  \/ \E frame \in 1..MaxSessionSends, part \in {"all", "first", "rest"},
        intact \in BOOLEAN : SessionWriteSome(frame, part, intact)

SpecSessionOut == InitSessionOut /\ [][NextSessionOut]_vars

\* C31: writes to one session are serialized for the whole frame: when
\* send_message calls of different threads address the same client, the client
\* receives each frame as its 4-byte length followed by its complete body,
\* never bytes of two frames interleaved. (Of a frame being written the first
\* piece may be the last of the stream.)
C31_FramesWrittenWhole ==
  \A i \in DOMAIN sessOut.stream :
    LET piece == sessOut.stream[i] IN
      /\ piece.part = "first" =>
           \/ i = Len(sessOut.stream)
           \/ /\ sessOut.stream[i + 1].frame = piece.frame
              /\ sessOut.stream[i + 1].part = "rest"
      /\ piece.part = "rest" =>
           /\ i > 1
           /\ sessOut.stream[i - 1].frame = piece.frame
           /\ sessOut.stream[i - 1].part = "first"

\* ------------------------------------------- TcpClient: connect and disconnect
\* The client's life cycle: the owner's thread (connect with its wait loop,
\* disconnect, destruction) and the I/O thread (io_context_.run() with
\* handle_connect). The reads and writes of a connected client are the
\* subject of the specification of the framed transport above.

\* the std::thread io_thread_ points to is joinable
IoThreadJoinable(c) == c.io \in {"started", "running", "returned"}

\* the client's io_context has something to wait for
CliOutstandingWork == cli.connect = "pending" \/ cli.read # "none"

\* the process has ended in std::terminate, or the client is destroyed
CliGone == CliTerminated \/ cliLife.caller = "destroyed"

\* the connection_handler_ call, if a handler is set
ConnectionHandlerCall(log, state) == IF cliLife.handler THEN Append(log, state) ELSE log

\* TcpClient::set_connection_handler
TcpClientSetConnectionHandler ==
  /\ ~CliGone /\ cliLife.caller = "idle" /\ ~cliLife.handler
  /\ cliLife' = [cliLife EXCEPT !.handler = TRUE]
  /\ UNCHANGED <<cli, cliConnLog>>
  /\ UNCHANGED notCliLife

\* TcpClient::connect up to its wait loop. A connected client returns true at
\* once. resolver_.resolve may throw: caught, false. Otherwise async_connect is
\* issued and io_thread_ assigned a new thread; the std::thread it held, if
\* joinable, is destroyed by the assignment: std::terminate.
TcpClientConnect(resolved) ==
  /\ ~CliGone /\ cliLife.caller = "idle"
  /\ IF cli.connected_
       THEN /\ cliLife' = [cliLife EXCEPT !.last = "connect_true"]
            /\ UNCHANGED cli
       ELSE IF ~resolved
         THEN /\ cliLife' = [cliLife EXCEPT !.last = "connect_false"]
              /\ UNCHANGED cli
         ELSE /\ cli' = [cli EXCEPT !.connect = "pending",
                                    !.sock = "connecting",
                                    !.io = IF IoThreadJoinable(cli) THEN "terminated"
                                           ELSE "started"]
              /\ cliLife' = [cliLife EXCEPT !.caller = "connect_wait", !.last = "none",
                                            !.attempts = @ + 1]
  /\ UNCHANGED cliConnLog
  /\ UNCHANGED notCliLife

\* connect's wait loop ends, connected_ being set or the 5 seconds over, and
\* connect returns connected_
TcpClientConnectReturns(timeout) ==
  /\ ~CliGone /\ cliLife.caller = "connect_wait"
  /\ cli.connected_ \/ timeout
  /\ cliLife' = [cliLife EXCEPT !.caller = "idle",
                                !.last = IF cli.connected_ THEN "connect_true"
                                         ELSE "connect_false"]
  /\ UNCHANGED <<cli, cliConnLog>>
  /\ UNCHANGED notCliLife

\* the I/O thread enters io_context_.run(), which returns at once if the
\* context is stopped or has no work
CliIoThreadRun ==
  /\ ~CliGone /\ cli.io = "started"
  /\ IF cliLife.stopped \/ ~CliOutstandingWork
       THEN /\ cli' = [cli EXCEPT !.io = "returned"]
            /\ cliLife' = [cliLife EXCEPT !.stopped = TRUE]
       ELSE /\ cli' = [cli EXCEPT !.io = "running"]
            /\ UNCHANGED cliLife
  /\ UNCHANGED cliConnLog
  /\ UNCHANGED notCliLife

\* io_context_.run() returns, out of work: the I/O thread ends
CliIoThreadReturn ==
  /\ ~CliGone /\ cli.io = "running"
  /\ ~CliOutstandingWork
  /\ cli' = [cli EXCEPT !.io = "returned"]
  /\ cliLife' = [cliLife EXCEPT !.stopped = TRUE]
  /\ UNCHANGED cliConnLog
  /\ UNCHANGED notCliLife

\* TcpClient::ClientImpl::handle_connect on the I/O thread: without error,
\* connected_ = true, connection_handler_(true) and read_header(); with an
\* error, a log line
TcpClientHandleConnect(error) ==
  /\ ~CliGone /\ cli.io = "running" /\ cli.connect = "pending"
  /\ IF ~error
       THEN /\ cli' = [cli EXCEPT !.connected_ = TRUE, !.sock = "open",
                                  !.connect = "established", !.read = "header"]
            /\ cliConnLog' = ConnectionHandlerCall(cliConnLog, TRUE)
       ELSE /\ cli' = [cli EXCEPT !.connect = "failed"]
            /\ UNCHANGED cliConnLog
  /\ cliLife' = [cliLife EXCEPT !.late = @ \/ cliLife.last = "disconnect"]
  /\ UNCHANGED notCliLife

\* a read of the connected client ends with an error on the I/O thread (the
\* peer closed, the connection broke): the handler calls disconnect()
TcpClientReadFails ==
  /\ ~CliGone /\ cli.io = "running" /\ cli.read # "none"
  /\ cli' = IoThreadDisconnect(cli)
  /\ cliLife' = [cliLife EXCEPT !.stopped = TRUE,
                                !.late = @ \/ cliLife.last = "disconnect"]
  /\ UNCHANGED cliConnLog
  /\ UNCHANGED notCliLife

\* TcpClient::disconnect called by the owner: only if connected_.exchange(false)
\* gives true, the socket is closed, the context stopped, the thread joined
\* and connection_handler_(false) called
TcpClientDisconnect ==
  /\ ~CliGone /\ cliLife.caller = "idle"
  /\ cli' = CallerDisconnect(cli)
  /\ cliConnLog' = IF cli.connected_ THEN ConnectionHandlerCall(cliConnLog, FALSE)
                   ELSE cliConnLog
  /\ cliLife' = [cliLife EXCEPT !.last = "disconnect",
                                !.stopped = @ \/ cli.connected_]
  /\ UNCHANGED notCliLife

\* send_message's first test passes for every client
SendRefusedNever(c) == FALSE

\* send_message's first test: if (!connected_) return false
SendRefused(c) == ~c.connected_

\* TcpClient::ClientImpl::send_message called by the owner: false at once if
\* not connected; otherwise the frame is written and true returned ("ok"), or
\* the write throws ("throw"): disconnect(), and false
TcpClientSendMessage(outcome) ==
  /\ ~CliGone /\ cliLife.caller = "idle"
  /\ IF SendRefused(cli)
       THEN /\ cliLife' = [cliLife EXCEPT !.last = "send_false"]
            /\ UNCHANGED <<cli, cliConnLog>>
       ELSE IF outcome = "ok"
         THEN /\ cliLife.written < MaxCliWrites
              /\ cliLife' = [cliLife EXCEPT !.last = "send_true", !.written = @ + 1]
              /\ UNCHANGED <<cli, cliConnLog>>
         ELSE /\ cli' = CallerDisconnect(cli)
              /\ cliConnLog' = IF cli.connected_
                                 THEN ConnectionHandlerCall(cliConnLog, FALSE)
                                 ELSE cliConnLog
              /\ cliLife' = [cliLife EXCEPT !.last = "send_false",
                                            !.stopped = @ \/ cli.connected_]
  /\ UNCHANGED notCliLife

\* TcpClient::~TcpClient: disconnect(), then ClientImpl::~ClientImpl:
\* disconnect(), then the members are destroyed; a std::thread that is still
\* joinable ends the process in std::terminate
TcpClientDestroy ==
  /\ ~CliGone /\ cliLife.caller = "idle"
  /\ LET c == CallerDisconnect(CallerDisconnect(cli)) IN
       cli' = [c EXCEPT !.io = IF IoThreadJoinable(c) THEN "terminated" ELSE @]
  /\ cliConnLog' = IF cli.connected_ THEN ConnectionHandlerCall(cliConnLog, FALSE)
                   ELSE cliConnLog
  /\ cliLife' = [cliLife EXCEPT !.caller = "destroyed", !.last = "destroyed",
                                !.stopped = @ \/ cli.connected_]
  /\ UNCHANGED notCliLife

\* a TcpClient constructed
InitClientLife ==
  IdleNet /\ IdleObs /\ IdleQueue /\ IdleRR /\ IdlePrio /\ IdleBcast /\ IdleRegistry
  /\ IdleController
  /\ IdleUpdate
  /\ IdleSessOut
  /\ IdleObsNotify
  /\ IdlePrioRun
  /\ IdleCommand

NextClientLife ==
  \/ \E resolved \in BOOLEAN : TcpClientConnect(resolved)
  \/ \E timeout \in BOOLEAN : TcpClientConnectReturns(timeout)
  \/ CliIoThreadRun
  \/ CliIoThreadReturn
  \/ \E error \in BOOLEAN : TcpClientHandleConnect(error)
  \/ TcpClientReadFails
  \/ TcpClientSetConnectionHandler
  \/ \E outcome \in {"ok", "throw"} : TcpClientSendMessage(outcome)
  \/ TcpClientDisconnect
  \/ TcpClientDestroy

SpecClientLife == InitClientLife /\ [][NextClientLife]_vars

\* C20: after disconnect() or the destruction has returned, whatever the
\* client's state before, the socket is closed, the I/O thread, if one was
\* started, has ended and is joined, and no handler has run since.
C20_DisconnectLeavesNothingRunning ==
  (cliLife.caller \in {"idle", "destroyed"} /\ cliLife.last \in {"disconnect", "destroyed"}) =>
    /\ cli.sock = "closed"
    /\ cli.io \in {"none", "joined"}
    /\ ~cliLife.late

\* C21: a second disconnect() with no connect in between changes nothing, and
\* connection_handler_(false) is called exactly once for each change of the
\* client from connected to disconnected, whichever thread brings it about.
C21_DisconnectOnceWithOneCallback ==
  [][/\ (TcpClientDisconnect /\ cliLife.last = "disconnect")
          => UNCHANGED <<cli, cliConnLog>>
     /\ (cli.connected_ /\ ~cli'.connected_ /\ cliLife.handler)
          => cliConnLog' = Append(cliConnLog, FALSE)
     /\ ~(cli.connected_ /\ ~cli'.connected_)
          => cliConnLog' \in {cliConnLog, Append(cliConnLog, TRUE)}]_vars

\* C38: when connect() has returned false, after an error of the setup or the
\* 5 seconds of its wait, the client is not connected and does not become
\* connected unless connect() is called again, and connection_handler_ is not
\* called with true.
C38_FailedConnectStaysDisconnected ==
  [][(cliLife.caller = "idle" /\ cliLife.last = "connect_false") =>
       /\ ~cli.connected_ /\ ~cli'.connected_
       /\ cliConnLog' # Append(cliConnLog, TRUE)]_vars

\* the threads are scheduled and time passes: the I/O thread runs what it can
\* run, and connect's wait loop ends after its 5 seconds at the latest
FairClientLife ==
  /\ WF_vars(CliIoThreadRun)
  /\ WF_vars(CliIoThreadReturn)
  /\ WF_vars(\E error \in BOOLEAN : TcpClientHandleConnect(error))
  /\ WF_vars(\E timeout \in BOOLEAN : TcpClientConnectReturns(timeout))

SpecClientLifeLive == SpecClientLife /\ FairClientLife

\* C22: a client can be retried: a connect() called after an earlier connect()
\* that failed or timed out, or after a disconnect(), gets the client
\* connected, unless this connection attempt itself is refused.
C22_RetriedConnectSucceeds ==
  (cliLife.caller = "connect_wait" /\ cliLife.attempts > 1)
    ~> (cli.connected_ \/ cli.connect = "failed")

\* C23: send_message on a client that is not connected returns false and
\* changes nothing: no frame is written, and the connection state, the socket,
\* the I/O thread and the record of handler calls stay as they are.
C23_SendWhenNotConnectedIsRefused ==
  [][((\E outcome \in {"ok", "throw"} : TcpClientSendMessage(outcome)) /\ ~cli.connected_)
       => /\ cliLife'.last = "send_false"
          /\ cliLife'.written = cliLife.written
          /\ UNCHANGED <<cli, cliConnLog>>]_vars

\* send_message has returned false on a client whose connect() timed out
\* with the connection attempt still outstanding
C23_Witness ==
  /\ cliLife.last = "send_false" /\ cliLife.caller = "idle"
  /\ ~cli.connected_ /\ cli.connect = "pending" /\ cli.io = "running"
  /\ cliLife.written = 0 /\ cliConnLog = <<>>

\* --------------------------------------------- Command and the JSON codec

\* the threads that construct, encode and decode commands
Threads == {"t1", "t2"}

\* nlohmann::json values: null, an integer, a double (finite, or NaN or an
\* infinity), a string, an object (a function from its keys to json values)
JNull == [null |-> TRUE]
JInt(n) == [int |-> n]
JFloat(x) == [float |-> x]
JNonFinite == [nonfinite |-> "inf"]
JStr(s) == [str |-> s]
JObj(o) == [obj |-> o]

\* a std::string whose bytes are not UTF-8 (0xC3 followed by 0x28)
IllFormed == "bytes C3 28"

\* what the callers pass: the target, Position values (a coordinate is a
\* double), alert messages
CmdTarget == "unit_001"
Positions ==
  {[x |-> JFloat(10), y |-> JFloat(20), z |-> JFloat(30)],
   [x |-> JNonFinite, y |-> JFloat(20), z |-> JFloat(30)]}
Messages == {"fire", IllFormed}

\* what a codec call can come to: no object, an exception that leaves it
Nullptr == [nullptr |-> TRUE]
TypeError302 == [throws |-> "type_error.302"]
TypeError305 == [throws |-> "type_error.305"]
TypeError306 == [throws |-> "type_error.306"]
TypeError316 == [throws |-> "type_error.316"]
ParseError == [throws |-> "parse_error.101"]
Throws(r) == "throws" \in DOMAIN r

\* json::contains(key): false for everything that is not an object
Contains(j, key) == "obj" \in DOMAIN j /\ key \in DOMAIN j.obj

\* a json number, and its value
IsNumber(j) == "int" \in DOMAIN j \/ "float" \in DOMAIN j
NumberOf(j) == IF "int" \in DOMAIN j THEN j.int ELSE j.float

\* json::dump(): a string that is not UTF-8 makes it throw type_error.316; a
\* double that is NaN or an infinity is written as null. The text is given by
\* the json value it denotes.
RECURSIVE WellFormed(_)
WellFormed(j) ==
  IF "str" \in DOMAIN j THEN j.str # IllFormed
  ELSE IF "obj" \in DOMAIN j THEN \A k \in DOMAIN j.obj : WellFormed(j.obj[k])
  ELSE TRUE

RECURSIVE Written(_)
Written(j) ==
  IF "nonfinite" \in DOMAIN j THEN JNull
  ELSE IF "obj" \in DOMAIN j THEN JObj([k \in DOMAIN j.obj |-> Written(j.obj[k])])
  ELSE j

Dump(j) == IF WellFormed(j) THEN [text |-> Written(j)] ELSE TypeError316

\* json::parse(data): the value the text denotes, or parse_error
Parse(data) == IF "text" \in DOMAIN data THEN data.text ELSE ParseError

\* static_cast<int>(type_)
CommandTypeCode == [MOVE |-> 0, REPORT |-> 1, ALERT |-> 2, SHUTDOWN |-> 3]

\* every number decoded as MOVE
CommandTypeOfFirst(n) == "MOVE"

\* static_cast<CommandType>(n)
CommandTypeOf(n) ==
  CASE n = 0 -> "MOVE" [] n = 1 -> "REPORT" [] n = 2 -> "ALERT"
    [] n = 3 -> "SHUTDOWN" [] OTHER -> "CommandType(" \o ToString(n) \o ")"

\* Command::to_json (the timestamp, which from_json does not read, is left out)
ToJson(c) ==
  JObj([id |-> JStr(c.id_), target_id |-> JStr(c.target_id_),
        type |-> JInt(CommandTypeCode[c.type_]), payload |-> c.payload_])

\* Command::from_json up to its constructor call: nullptr, an exception of a
\* conversion, or the arguments of make_unique<Command>
FromJson(j) ==
  IF ~Contains(j, "target_id") \/ ~Contains(j, "type") THEN Nullptr
  ELSE IF "str" \notin DOMAIN j.obj.target_id THEN TypeError302
  ELSE IF ~IsNumber(j.obj.type) THEN TypeError302
  ELSE [make |-> [target_id_ |-> j.obj.target_id.str,
                  type_ |-> CommandTypeOf(NumberOf(j.obj.type)),
                  payload_ |-> IF Contains(j, "payload") THEN j.obj.payload
                                ELSE JNull]]

\* JsonProtocolHandler::serialize_command
SerializeCommandOf(c) == Dump(ToJson(c))

\* JsonProtocolHandler::deserialize_command up to the constructor call: every
\* exception ends in nullptr
DeserializeCommandOf(data) ==
  IF Throws(Parse(data)) THEN Nullptr
  ELSE IF Throws(FromJson(Parse(data))) THEN Nullptr
  ELSE FromJson(Parse(data))

\* "cmd_" + std::to_string(n)
GenerateId(n) == "cmd_" \o ToString(n)

\* Command::Command: id_ is initialised first, from generate_id(), then the
\* other members; call is the decode call that constructs, or None
CommandCtor(t, target_id, type, payload, from, call) ==
  /\ ctor[t] = None
  /\ counter < MaxCommands
  /\ counter' = FetchAdd(counter)
  /\ ctor' = [ctor EXCEPT ![t] =
                [cmd |-> [id_ |-> GenerateId(counter), target_id_ |-> target_id,
                          type_ |-> type, payload_ |-> payload,
                          seen |-> Len(commands), from |-> from],
                 call |-> call]]
  /\ UNCHANGED <<commands, codecLast>>
  /\ UNCHANGED notCommand

\* the constructor returns, and with it the decode call that ran it
CommandCtorReturns(t) ==
  /\ ctor[t] # None
  /\ commands' = Append(commands, ctor[t].cmd)
  /\ ctor' = [ctor EXCEPT ![t] = None]
  /\ codecLast' = IF ctor[t].call = None THEN codecLast
                  ELSE [call |-> "deserialize_command", arg |-> ctor[t].call,
                        result |-> [cmd |-> Len(commands) + 1]]
  /\ UNCHANGED counter
  /\ UNCHANGED notCommand

\* Command(target_id, type): the payload defaults to {} (null)
NewCommand(t, type) == CommandCtor(t, CmdTarget, type, JNull, 0, None)

\* MoveCommand(target_id, destination)
NewMoveCommand(t, destination) ==
  CommandCtor(t, CmdTarget, "MOVE",
              JObj([destination |-> JObj([x |-> destination.x, y |-> destination.y,
                                          z |-> destination.z])]), 0, None)

\* ReportCommand(target_id)
NewReportCommand(t) == CommandCtor(t, CmdTarget, "REPORT", JNull, 0, None)

\* AlertCommand(target_id, message, severity = 1)
NewAlertCommand(t, message) ==
  CommandCtor(t, CmdTarget, "ALERT",
              JObj([message |-> JStr(message), severity |-> JInt(1)]), 0, None)

\* CommandFactory::create_move_command / create_report_command /
\* create_alert_command
CreateMoveCommand(t, destination) == NewMoveCommand(t, destination)
CreateReportCommand(t) == NewReportCommand(t)
CreateAlertCommand(t, message) == NewAlertCommand(t, message)

\* serialize_command(commands[i])
SerializeCommand(i) ==
  /\ i \in 1..Len(commands)
  /\ codecLast' = [call |-> "serialize_command", arg |-> [index |-> i],
                   result |-> SerializeCommandOf(commands[i])]
  /\ UNCHANGED <<counter, commands, ctor>>
  /\ UNCHANGED notCommand

\* the text the last serialize_command returned, if it returned one
EncodedTexts ==
  IF codecLast # None /\ codecLast.call = "serialize_command"
     /\ "text" \in DOMAIN codecLast.result
  THEN {codecLast.result} ELSE {}

\* history: the command whose encoding data is, or 0
EncodedFrom(data) == IF data \in EncodedTexts THEN codecLast.arg.index ELSE 0

\* deserialize_command(data) on thread t
DeserializeCommand(t, data) ==
  /\ ctor[t] = None
  /\ IF "make" \in DOMAIN DeserializeCommandOf(data)
     THEN CommandCtor(t, DeserializeCommandOf(data).make.target_id_,
                      DeserializeCommandOf(data).make.type_,
                      DeserializeCommandOf(data).make.payload_,
                      EncodedFrom(data), data)
     ELSE /\ codecLast' = [call |-> "deserialize_command", arg |-> data,
                           result |-> Nullptr]
          /\ UNCHANGED <<counter, commands, ctor>>
          /\ UNCHANGED notCommand

InitCommand ==
  IdleCommand /\ IdleNet /\ IdleObs /\ IdleQueue /\ IdleRR /\ IdlePrio /\ IdleBcast
  /\ IdleController
  /\ IdleUpdate
  /\ IdleSessOut
  /\ IdleObsNotify
  /\ IdlePrioRun
  /\ IdleRegistry

NextCommand ==
  \/ \E t \in Threads : NewCommand(t, "REPORT")
  \/ \E t \in Threads, destination \in Positions : NewMoveCommand(t, destination)
  \/ \E t \in Threads : NewReportCommand(t)
  \/ \E t \in Threads, message \in Messages : NewAlertCommand(t, message)
  \/ \E t \in Threads, destination \in Positions : CreateMoveCommand(t, destination)
  \/ \E t \in Threads : CreateReportCommand(t)
  \/ \E t \in Threads, message \in Messages : CreateAlertCommand(t, message)
  \/ \E t \in Threads : CommandCtorReturns(t)
  \/ \E i \in 1..MaxCommands : SerializeCommand(i)
  \/ \E t \in Threads, data \in EncodedTexts : DeserializeCommand(t, data)

SpecCommand == InitCommand /\ [][NextCommand]_vars

\* the Command objects that have an id: the constructed ones and those whose
\* constructor is running
WithId == Range(commands) \cup {ctor[t].cmd : t \in {u \in Threads : ctor[u] # None}}

\* C24: the Commands of a process, however they are made (base constructor,
\* specialized constructor, factory, decoding), have ids "cmd_<n>" that differ
\* pairwise, also when constructors run at the same time on two threads, and a
\* Command whose construction began after another was complete has the larger n.
C24_CommandIdsUniqueAndIncreasing ==
  /\ \A i, j \in 1..Len(commands) : i # j => commands[i].id_ # commands[j].id_
  /\ \A t \in Threads : ctor[t] # None =>
       /\ \A i \in 1..Len(commands) : commands[i].id_ # ctor[t].cmd.id_
       /\ \A u \in Threads \ {t} : ctor[u] # None => ctor[u].cmd.id_ # ctor[t].cmd.id_
  /\ \A c \in WithId : \E n \in 0..(MaxCommands - 1) : c.id_ = GenerateId(n)
  /\ \A i, j \in 1..Len(commands) :
       commands[j].seen >= i =>
         \E m, n \in 0..(MaxCommands - 1) :
           /\ commands[i].id_ = GenerateId(m) /\ commands[j].id_ = GenerateId(n)
           /\ m < n

\* two constructors have run at the same time, a third command was decoded
\* from the encoding of an earlier one
C24_Witness ==
  /\ Len(commands) = 3
  /\ commands[2].seen = 0
  /\ commands[3].from # 0 /\ commands[3].seen = 2

\* the well-formed commands of the three types that have an encoding
Encodable == {"MOVE", "REPORT", "ALERT"}

\* every number in j is finite
RECURSIVE Finite(_)
Finite(j) ==
  IF "nonfinite" \in DOMAIN j THEN FALSE
  ELSE IF "obj" \in DOMAIN j THEN \A k \in DOMAIN j.obj : Finite(j.obj[k])
  ELSE TRUE

\* C25 as the specification states it: encoding any MOVE, REPORT or ALERT
\* Command gives a text, and the Command decoded from that text has the same
\* target_id, type and payload.
C25_EncodeDecodeKeepsFields ==
  /\ (codecLast # None /\ codecLast.call = "serialize_command"
      /\ commands[codecLast.arg.index].type_ \in Encodable)
       => "text" \in DOMAIN codecLast.result
  /\ \A k \in 1..Len(commands) :
       (commands[k].from # 0 /\ commands[commands[k].from].type_ \in Encodable) =>
         /\ commands[k].target_id_ = commands[commands[k].from].target_id_
         /\ commands[k].type_ = commands[commands[k].from].type_
         /\ commands[k].payload_ = commands[commands[k].from].payload_

\* C25, amended: encoding a MOVE, REPORT or ALERT Command whose strings are
\* UTF-8 gives a text (any other string makes the encoder throw), decoding
\* that text gives a Command, and that Command has the same target_id and
\* type, and the same payload when every number of the payload is finite (a
\* NaN or an infinity is encoded as null and decoded as null).
C25_RoundTripOfWellFormedFinite ==
  /\ (codecLast # None /\ codecLast.call = "serialize_command"
      /\ commands[codecLast.arg.index].type_ \in Encodable)
       => ("text" \in DOMAIN codecLast.result
             <=> WellFormed(ToJson(commands[codecLast.arg.index])))
  /\ (codecLast # None /\ codecLast.call = "deserialize_command"
      /\ \E i \in 1..Len(commands) : SerializeCommandOf(commands[i]) = codecLast.arg)
       => codecLast.result # Nullptr
  /\ \A k \in 1..Len(commands) :
       (commands[k].from # 0 /\ commands[commands[k].from].type_ \in Encodable) =>
         /\ commands[k].target_id_ = commands[commands[k].from].target_id_
         /\ commands[k].type_ = commands[commands[k].from].type_
         /\ Finite(commands[commands[k].from].payload_)
              => commands[k].payload_ = commands[commands[k].from].payload_

\* C39: the id generated for a Command survives the wire: the Command decoded
\* from the encoding of a Command has the id of that Command, so that an
\* acknowledgment built from the decoded Command names the original.
C39_DecodedCommandKeepsId ==
  \A k \in 1..Len(commands) :
    commands[k].from # 0 => commands[k].id_ = commands[commands[k].from].id_

\* an ALERT and a MOVE command have been encoded and decoded, and the decoded
\* commands carry the payloads of the encoded ones under ids of their own
C25_Witness ==
  /\ Len(commands) = 3
  /\ commands[1].type_ = "ALERT" /\ commands[2].from = 1
  /\ commands[2].payload_ = commands[1].payload_
  /\ commands[2].id_ # commands[1].id_
  /\ codecLast.call = "serialize_command" /\ codecLast.arg.index = 3
  /\ commands[3].type_ = "MOVE" /\ "text" \in DOMAIN codecLast.result

\* ------------------------------------------------ the three decode operations

\* a key a document does not have
Absent == [absent |-> TRUE]

\* the object with the keys of f whose value is not Absent
ObjOf(f) == JObj([k \in {key \in DOMAIN f : f[key] # Absent} |-> f[k]])

\* a string that is not JSON
Garbage == [garbage |-> "{not json"]

\* the texts with a json value of their own
TextsOf(docs) == {[text |-> j] : j \in docs}

\* the inputs of deserialize_command: target_id and type absent, of the right
\* type or of another type, with and without a payload; a document that is no
\* object; a string that is not JSON
CommandInputs ==
  TextsOf({ObjOf([target_id |-> a, type |-> b, payload |-> c]) :
             a \in {Absent, JStr("unit_001"), JInt(7)},
             b \in {Absent, JFloat(2), JStr("MOVE")},
             c \in {Absent, JObj([note |-> JStr("x")])}}
          \cup {JNull, JInt(1)})
  \cup {Garbage}

\* the "position" values of a telemetry document: complete, without x, no object
PositionDocs ==
  {Absent, JObj([x |-> JFloat(15), y |-> JFloat(25), z |-> JFloat(35)]),
   JObj([y |-> JFloat(25), z |-> JFloat(35)]), JInt(3)}

\* the "data" values of a telemetry document
DataDocs ==
  {ObjOf([unit_id |-> a, position |-> b, status |-> c]) :
     a \in {Absent, JStr("unit_001"), JInt(7)},
     b \in PositionDocs,
     c \in {Absent, JInt(2), JStr("BUSY")}}
  \cup {JInt(5),
        JObj([unit_id |-> JStr("unit_001"),
              position |-> JObj([x |-> JFloat(15), y |-> JFloat(25), z |-> JFloat(35)]),
              status |-> JInt(2), battery_level |-> JFloat(80)])}

\* the inputs of deserialize_telemetry
TelemetryInputs ==
  TextsOf({ObjOf([type |-> a, data |-> b]) :
             a \in {Absent, JStr("telemetry"), JStr("command"), JInt(1)},
             b \in {Absent} \cup DataDocs}
          \cup {JNull})
  \cup {Garbage}

\* the inputs of deserialize_message
EnvelopeInputs ==
  TextsOf({ObjOf([type |-> a, payload |-> b]) :
             a \in {Absent, JInt(1), JStr("COMMAND")},
             b \in {Absent, JStr("{}"), JInt(0)}}
          \cup {JInt(1)})
  \cup {Garbage}

\* operator[] of a const json object with a key the object does not have: an
\* assertion of the library fails, and without assertions the behaviour is
\* undefined
Undefined == [undefined |-> "operator[] const: key not found"]

\* what the undefined behaviour comes to: the process is aborted, the decoder
\* returns nullptr, the decoder returns an object made from whatever was read
UndefinedOutcomes == {[abort |-> TRUE], Nullptr, [report |-> "indeterminate"]}

\* static_cast<UnitStatus>(n)
UnitStatusOf(n) ==
  CASE n = 0 -> "IDLE" [] n = 1 -> "MOVING" [] n = 2 -> "BUSY" [] n = 3 -> "ERROR"
    [] n = 4 -> "OFFLINE" [] OTHER -> "UnitStatus(" \o ToString(n) \o ")"

\* static_cast<MessageType>(n)
MessageTypeOf(n) ==
  CASE n = 0 -> "COMMAND" [] n = 1 -> "TELEMETRY" [] n = 2 -> "ACKNOWLEDGMENT"
    [] n = 3 -> "ERROR" [] OTHER -> "MessageType(" \o ToString(n) \o ")"

\* j.value(key, default) for a number, j an object
ValueOr(j, key, default) ==
  IF key \in DOMAIN j.obj THEN NumberOf(j.obj[key]) ELSE default

\* TelemetryData::from_json: j is const, so j[key] never inserts; pos is a
\* copy, so pos[key] inserts null for a key that is missing
TelemetryDataFromJson(j) ==
  IF "obj" \notin DOMAIN j THEN TypeError305
  ELSE IF "unit_id" \notin DOMAIN j.obj THEN Undefined
  ELSE IF "str" \notin DOMAIN j.obj.unit_id THEN TypeError302
  ELSE IF "position" \notin DOMAIN j.obj THEN Undefined
  ELSE IF "obj" \notin DOMAIN j.obj.position /\ j.obj.position # JNull
    THEN TypeError305
  ELSE IF \E k \in {"x", "y", "z"} :
            ~Contains(j.obj.position, k) \/ ~IsNumber(j.obj.position.obj[k])
    THEN TypeError302
  ELSE IF "status" \notin DOMAIN j.obj THEN Undefined
  ELSE IF ~IsNumber(j.obj.status) THEN TypeError302
  ELSE IF \E k \in {"battery_level", "cpu_usage", "memory_usage", "timestamp"} :
            k \in DOMAIN j.obj /\ ~IsNumber(j.obj[k])
    THEN TypeError302
  ELSE IF "last_command_id" \in DOMAIN j.obj /\ "str" \notin DOMAIN j.obj.last_command_id
    THEN TypeError302
  ELSE [data |-> [unit_id |-> j.obj.unit_id.str,
                  position |-> [k \in {"x", "y", "z"} |->
                                  NumberOf(j.obj.position.obj[k])],
                  status |-> UnitStatusOf(NumberOf(j.obj.status)),
                  battery_level |-> ValueOr(j, "battery_level", 100),
                  cpu_usage |-> ValueOr(j, "cpu_usage", 0),
                  memory_usage |-> ValueOr(j, "memory_usage", 0),
                  last_command_id |-> IF "last_command_id" \in DOMAIN j.obj
                                       THEN j.obj.last_command_id.str ELSE ""]]

\* TelemetryReport::from_json
TelemetryReportFromJson(j) ==
  IF "obj" \notin DOMAIN j THEN TypeError306
  ELSE IF "type" \in DOMAIN j.obj /\ "str" \notin DOMAIN j.obj.type THEN TypeError302
  ELSE IF (IF "type" \in DOMAIN j.obj THEN j.obj.type.str ELSE "") # "telemetry"
          \/ ~Contains(j, "data")
    THEN Nullptr
  ELSE IF "data" \in DOMAIN TelemetryDataFromJson(j.obj.data)
    THEN [report |-> TelemetryDataFromJson(j.obj.data).data]
  ELSE TelemetryDataFromJson(j.obj.data)

\* ProtocolMessage::from_json
ProtocolMessageFromJson(j) ==
  IF ~Contains(j, "type") \/ ~Contains(j, "payload") THEN Nullptr
  ELSE IF ~IsNumber(j.obj.type) THEN TypeError302
  ELSE IF "str" \notin DOMAIN j.obj.payload THEN TypeError302
  ELSE [msg |-> [type |-> MessageTypeOf(NumberOf(j.obj.type)),
                 payload |-> j.obj.payload.str]]

\* JsonProtocolHandler::deserialize_telemetry: every exception ends in nullptr
DeserializeTelemetryOf(data) ==
  IF Throws(Parse(data)) THEN Nullptr
  ELSE IF Throws(TelemetryReportFromJson(Parse(data))) THEN Nullptr
  ELSE TelemetryReportFromJson(Parse(data))

\* JsonProtocolHandler::deserialize_message: every exception ends in nullptr
DeserializeMessageOf(data) ==
  IF Throws(Parse(data)) THEN Nullptr
  ELSE IF Throws(ProtocolMessageFromJson(Parse(data))) THEN Nullptr
  ELSE ProtocolMessageFromJson(Parse(data))

\* what deserialize_telemetry(data) can come to
TelemetryOutcomes(data) ==
  IF DeserializeTelemetryOf(data) = Undefined THEN UndefinedOutcomes
  ELSE {DeserializeTelemetryOf(data)}

\* deserialize_telemetry(data)
DeserializeTelemetry(data, outcome) ==
  /\ codecLast' = [call |-> "deserialize_telemetry", arg |-> data, result |-> outcome]
  /\ UNCHANGED <<counter, commands, ctor>>
  /\ UNCHANGED notCommand

\* deserialize_message(data)
DeserializeMessage(data) ==
  /\ codecLast' = [call |-> "deserialize_message", arg |-> data,
                   result |-> DeserializeMessageOf(data)]
  /\ UNCHANGED <<counter, commands, ctor>>
  /\ UNCHANGED notCommand

NextDecode ==
  \/ \E data \in CommandInputs : DeserializeCommand("t1", data)
  \/ \E t \in Threads : CommandCtorReturns(t)
  \/ \E data \in TelemetryInputs : \E outcome \in TelemetryOutcomes(data) :
       DeserializeTelemetry(data, outcome)
  \/ \E data \in EnvelopeInputs : DeserializeMessage(data)

SpecDecode == InitCommand /\ [][NextDecode]_vars

\* the inputs the decoders have to refuse: a string that is not JSON, a
\* command without target_id or type, a telemetry report whose type tag is not
\* "telemetry", that has no data, or whose data lacks unit_id, position (with
\* x, y and z) or status, an envelope without type or payload
Refused(call, data) ==
  \/ Throws(Parse(data))
  \/ /\ call = "deserialize_command"
     /\ ~Contains(Parse(data), "target_id") \/ ~Contains(Parse(data), "type")
  \/ /\ call = "deserialize_telemetry"
     /\ \/ ~Contains(Parse(data), "type")
        \/ Parse(data).obj.type # JStr("telemetry")
        \/ ~Contains(Parse(data), "data")
        \/ \E k \in {"unit_id", "position", "status"} :
             ~Contains(Parse(data).obj.data, k)
        \/ \E k \in {"x", "y", "z"} : ~Contains(Parse(data).obj.data.obj.position, k)
  \/ /\ call = "deserialize_message"
     /\ ~Contains(Parse(data), "type") \/ ~Contains(Parse(data), "payload")

\* C26: no decode operation ends otherwise than by returning, and each returns
\* no value for an input that is not JSON or not of the expected shape.
C26_DecodeFailureYieldsNoValue ==
  (codecLast # None /\ codecLast.call # "serialize_command") =>
    /\ "abort" \notin DOMAIN codecLast.result
    /\ Refused(codecLast.call, codecLast.arg) => codecLast.result = Nullptr

\* ------------------------------------------------------------- Controller
\* The Controller's own code is not among the sources: its operations follow
\* the specification's section on the Controller service. The registry, the
\* strategy, the queue, the id counter and TcpServer::send_message are the
\* ones modelled above.

\* what the Controller's operations leave alone
notController ==
  <<clock, enqueued, dequeued, qOp, qRet, rrVars, prioVars, bcVars, regClock, regTicks,
    regUpdates, obsVars, netRest, connLog, running_, io_thread_, ioStopped, acceptOps,
    backlog, srvPc, ioHeld, srvStarts, srvLast, cliLife, commands, ctor, codecLast,
    updateCall, sessOut,
                obsNotify,
                prioRun>>

\* the units the operator registers; the ids the server gives its connections:
\* "A" is a connection whose id is the id of unit A
CtlUnitIds == {"A", "B"}
CtlClientIds == {"A", "client_1000"}

\* the queue priority of a REPORT command
ReportPriority == 5

\* Controller::start()
ControllerStart ==
  /\ ~ctl.running
  /\ ctl' = [ctl EXCEPT !.running = TRUE]
  /\ UNCHANGED <<queue_, units_, unitObj, regSet, regLatest, lastWrite, clients_,
                 srvSess, counter>>
  /\ UNCHANGED notController

\* Controller::stop(): the server is stopped (TcpServer::stop closes and
\* drops every session), the processing loop dequeues no further command
ControllerStop ==
  /\ ctl.running
  /\ ctl' = [ctl EXCEPT !.running = FALSE]
  /\ clients_' = <<>>
  /\ srvSess' = DestroyUnowned(CloseAll(srvSess, clients_), clients_', 0)
  /\ UNCHANGED <<queue_, units_, unitObj, regSet, regLatest, lastWrite, counter>>
  /\ UNCHANGED notController

\* Controller::register_unit(id): a new Unit, registered with
\* UnitRegistry::register_unit
ControllerRegisterUnit(id) ==
  /\ Len(unitObj) < MaxLiveUnits
  /\ unitObj' = Append(unitObj, NewUnit(id, regClock))
  /\ lastWrite' = Append(lastWrite, regClock)
  /\ units_' = MapAssign(units_, id, Len(unitObj) + 1)
  /\ regSet' = regSet \cup {id}
  /\ regLatest' = [u \in DOMAIN regLatest \cup {id} |->
                     IF u = id THEN Len(unitObj) + 1 ELSE regLatest[u]]
  /\ UNCHANGED <<queue_, clients_, srvSess, counter, ctl>>
  /\ UNCHANGED notController

\* Controller::set_dispatch_strategy(BROADCAST)
SetDispatchStrategy(type) ==
  /\ ctl' = [ctl EXCEPT !.strategy = type]
  /\ UNCHANGED <<queue_, units_, unitObj, regSet, regLatest, lastWrite, clients_,
                 srvSess, counter>>
  /\ UNCHANGED notController

\* an agent's connection is accepted and gets client_id (TcpServer::handle_accept
\* and ClientSession::start)
AgentConnects(client_id) ==
  /\ ctl.running
  /\ Len(srvSess) < MaxConns
  /\ clients_' = MapAssign(clients_, client_id, Len(srvSess) + 1)
  /\ srvSess' = DestroyUnowned(
                  Append(srvSess, [NewSession(client_id) EXCEPT !.connected_ = TRUE]),
                  clients_', 0)
  /\ UNCHANGED <<queue_, units_, unitObj, regSet, regLatest, lastWrite, counter, ctl>>
  /\ UNCHANGED notController

\* the connection of a session ends: its read fails and the session closes
\* itself (ClientSession::close)
AgentDisconnects(client_id) ==
  /\ SessionOf(client_id) # NoSession
  /\ srvSess[SessionOf(client_id)].connected_
  /\ srvSess' = [srvSess EXCEPT ![SessionOf(client_id)] = SessClose(@)]
  /\ UNCHANGED <<queue_, units_, unitObj, regSet, regLatest, lastWrite, clients_,
                 counter, ctl>>
  /\ UNCHANGED notController

\* the ReportCommand objects made for the targets, the counter being at n
ReportCommandsFor(targets, n) ==
  [k \in 1..Len(targets) |->
     [id_ |-> GenerateId(n + k - 1), target_id_ |-> targets[k], type_ |-> "REPORT",
      payload_ |-> JNull]]

\* CommandQueue::enqueue for each command of cmds in turn
RECURSIVE EnqueueAll(_, _, _)
EnqueueAll(h, cmds, prio) ==
  IF cmds = <<>> THEN h
  ELSE EnqueueAll(PQPush(h, CommandEntry(Head(cmds), prio)), Tail(cmds), prio)

\* Controller::broadcast_report_command(): send_report_command for every
\* target the strategy selects, each making a ReportCommand and enqueuing it
BroadcastReportCommand ==
  /\ ctl.running /\ ctl.strategy = "BROADCAST"
  /\ units_ # <<>>
  /\ LET targets == BroadcastSelectTargets(GetAllUnitIds, "REPORT")
         cmds == ReportCommandsFor(targets, counter) IN
       /\ counter + Len(targets) <= MaxCommands
       /\ counter' = counter + Len(targets)
       /\ queue_' = EnqueueAll(queue_, cmds, ReportPriority)
       /\ ctl' = [ctl EXCEPT !.last = [units |-> DOMAIN units_, cmds |-> cmds]]
  /\ UNCHANGED <<units_, unitObj, regSet, regLatest, lastWrite, clients_, srvSess>>
  /\ UNCHANGED notController

\* the processing loop takes the next command: CommandQueue::dequeue
WorkerDequeue ==
  /\ ctl.running /\ ctl.worker = None
  /\ queue_ # <<>>
  /\ ctl' = [ctl EXCEPT !.worker = PQTop(queue_).command]
  /\ queue_' = PQPop(queue_)
  /\ UNCHANGED <<units_, unitObj, regSet, regLatest, lastWrite, clients_, srvSess,
                 counter>>
  /\ UNCHANGED notController

\* the target of cmd has a live connection: a session under its id
\* (TcpServer::send_message), which is connected (ClientSession::send_message)
HasLiveConnection(cmd) ==
  /\ SessionOf(cmd.target_id_) # NoSession
  /\ srvSess[SessionOf(cmd.target_id_)].connected_

\* the processing loop encodes the command and sends it to the client whose id
\* is the command's target; without a live connection the command is dropped
\* and that is logged
WorkerSend ==
  /\ ctl.worker # None
  /\ IF HasLiveConnection(ctl.worker)
       THEN /\ srvSess' = [srvSess EXCEPT ![SessionOf(ctl.worker.target_id_)].written = @ + 1]
            /\ ctl' = [ctl EXCEPT !.worker = None, !.sent = @ \cup {ctl.worker}]
       ELSE /\ ctl' = [ctl EXCEPT !.worker = None, !.dropped = @ \cup {ctl.worker}]
            /\ UNCHANGED srvSess
  /\ UNCHANGED <<queue_, units_, unitObj, regSet, regLatest, lastWrite, clients_,
                 counter>>
  /\ UNCHANGED notController

InitController ==
  IdleController /\ IdleUpdate /\ IdleSessOut /\ IdleObsNotify /\ IdlePrioRun /\ IdleCommand /\ IdleNet /\ IdleObs /\ IdleQueue /\ IdleRR /\ IdlePrio
  /\ IdleBcast /\ IdleRegistry

NextController ==
  \/ ControllerStart
  \/ ControllerStop
  \/ \E id \in CtlUnitIds : ControllerRegisterUnit(id)
  \/ SetDispatchStrategy("BROADCAST")
  \/ \E client_id \in CtlClientIds : AgentConnects(client_id)
  \/ \E client_id \in CtlClientIds : AgentDisconnects(client_id)
  \/ BroadcastReportCommand
  \/ WorkerDequeue
  \/ WorkerSend

SpecController == InitController /\ [][NextController]_vars

\* the processing loop is a thread of its own: it goes on while it can
FairController == WF_vars(WorkerDequeue) /\ WF_vars(WorkerSend)

SpecControllerLive == SpecController /\ FairController

\* the commands in the queue
Queued == {queue_[i].command : i \in DOMAIN queue_}

====
